---------------------------- MODULE Spec2Model ----------------------------
(***************************************************************************)
(* A model of githubfetch (src/githubfetch/githubfetch.py): the colour     *)
(* helper, the contribution heatmap renderer, the trailing-blank trim, the *)
(* profile text formatter and the side-by-side compositor.                 *)
(*                                                                         *)
(* A printable line is a sequence of items.  An item is a string: an       *)
(* escape code (zero columns wide, named "ESC..."), a single character     *)
(* (one column wide; " " and "\t" are whitespace), or a whole phrase       *)
(* of a fixed message (non-blank, width not tracked).                      *)
(***************************************************************************)
EXTENDS Integers, Sequences, FiniteSets, TLC

VARIABLES
    pc,                  \* position of the running operation
    color,               \* the global Color instance: attribute name -> code
    contributions_data,  \* argument of get_contributions_heatmap_lines
    hm,                  \* frame of the last get_contributions_heatmap_lines call
    hm_calls,            \* number of calls made so far in this process
    user_data,           \* the profile record (login, blog, bio, location, counts)
    lines,               \* argument of trim_trailing_empty_lines
    trimmed,             \* what trim_trailing_empty_lines returned for lines
    retrimmed,           \* what it returned when applied to trimmed
    starred_count,       \* argument of display_side_by_side
    pinned_repos,        \* argument of display_side_by_side (<<>> for None)
    terminal_width,      \* os.get_terminal_size().columns
    imgcat_path,         \* what check_imgcat_installed returned
    dsp,                 \* frame of display_side_by_side
    stdout,              \* what has been written to the terminal
    stderr,              \* what has been written to the error stream
    exc,                 \* the exception last raised ("none" before any)
    info_width,          \* text_width of get_user_info_lines called on its own
    info_result,         \* what that call returned, or the exception it raised
    heatmap_requested,   \* main: '--heatmap' is among the arguments
    tok                  \* the token file, GITHUB_TOKEN and the frame of setup_github_token

(***************************************************************************)
(* Bounds of the model.                                                    *)
(***************************************************************************)
MaxCount == 8        \* largest contribution count of a day
ShortDays == 3       \* longest window of days enumerated with every count pattern
MaxDays == 40        \* longest window of consecutive days
MaxCalls == 2        \* calls of the heatmap renderer in one process
MaxLines == 3        \* longest sequence of lines given to the trim

(***************************************************************************)
(* Small helpers on sequences.                                             *)
(***************************************************************************)
RECURSIVE Repeat(_, _)
Repeat(x, n) == IF n <= 0 THEN <<>> ELSE <<x>> \o Repeat(x, n - 1)

RECURSIVE Concat(_)
Concat(ss) == IF ss = <<>> THEN <<>> ELSE Head(ss) \o Concat(Tail(ss))

Max2(a, b) == IF a >= b THEN a ELSE b

RECURSIVE SeqMax(_)
SeqMax(s) == IF Len(s) = 1 THEN s[1] ELSE Max2(s[1], SeqMax(Tail(s)))

RECURSIVE SeqSum(_)
SeqSum(s) == IF s = <<>> THEN 0 ELSE s[1] + SeqSum(Tail(s))

Digit(d) == <<"0", "1", "2", "3", "4", "5", "6", "7", "8", "9">>[d + 1]

\* str(n) of a non-negative integer: its decimal digits
RECURSIVE Str(_)
Str(n) == IF n < 10 THEN <<Digit(n)>> ELSE Str(n \div 10) \o <<Digit(n % 10)>>

(***************************************************************************)
(* class Color                                                             *)
(***************************************************************************)
ColorInit ==
    [red |-> "ESC[38;5;1m", green |-> "ESC[38;5;149m", yellow |-> "ESC[38;5;11m",
     light_blue |-> "ESC[38;5;45m", light_red |-> "ESC[38;5;9m",
     orange |-> "ESC[38;5;208m", blue |-> "ESC[38;5;21m", reset |-> "ESC[00m"]

DarkGreenCode == "ESC[38;5;22m"
LightGreenCode == "ESC[38;5;118m"

EscapeCodes ==
    {ColorInit[n] : n \in DOMAIN ColorInit} \cup {DarkGreenCode, LightGreenCode}
        \cup {"ESC]8;;", "BEL"}

\* Color.color(color_name, text): getattr(self, color_name, self.reset)
Color_color(c, color_name, text) ==
    <<IF color_name \in DOMAIN c THEN c[color_name] ELSE c["reset"]>>
        \o text \o <<c["reset"]>>

\* setattr on the instance when the attribute is missing
SetIfMissing(c, name, code) ==
    IF name \in DOMAIN c THEN c ELSE c @@ (name :> code)

(***************************************************************************)
(* Dates: "YYYY-MM-DD" as [year, month, day]; valid = FALSE is the empty   *)
(* string (a day record without a usable date).                            *)
(***************************************************************************)
IsLeap(y) == y % 4 = 0 /\ (y % 100 # 0 \/ y % 400 = 0)

DaysInMonth(y, m) ==
    IF m = 2 THEN (IF IsLeap(y) THEN 29 ELSE 28)
    ELSE IF m \in {4, 6, 9, 11} THEN 30 ELSE 31

\* datetime._days_before_month
DaysBeforeMonth(y, m) ==
    <<0, 31, 59, 90, 120, 151, 181, 212, 243, 273, 304, 334>>[m]
        + (IF m > 2 /\ IsLeap(y) THEN 1 ELSE 0)

\* datetime.date.toordinal
ToOrdinal(d) ==
    LET y1 == d.year - 1
    IN  y1 * 365 + y1 \div 4 - y1 \div 100 + y1 \div 400
            + DaysBeforeMonth(d.year, d.month) + d.day

\* datetime.date.weekday(): Monday = 0 ... Sunday = 6
Weekday(d) == (ToOrdinal(d) + 6) % 7

\* calendar.month_abbr
month_abbr ==
    << <<"J","a","n">>, <<"F","e","b">>, <<"M","a","r">>, <<"A","p","r">>,
       <<"M","a","y">>, <<"J","u","n">>, <<"J","u","l">>, <<"A","u","g">>,
       <<"S","e","p">>, <<"O","c","t">>, <<"N","o","v">>, <<"D","e","c">> >>

(***************************************************************************)
(* get_contributions_heatmap_lines(username, contributions_data, width)    *)
(***************************************************************************)
\* the glyphs: "." is the middle dot, "o" the small square, "#" the square
ContributionBlocks(c) ==
    << Color_color(c, "reset", <<".">>),
       Color_color(c, "light_green", <<"o">>),
       Color_color(c, "green", <<"o">>),
       Color_color(c, "green", <<"#">>),
       Color_color(c, "dark_green", <<"#">>) >>

\* lines 413-418: the flattened day counts
AllDays(weeks) ==
    Concat([k \in 1..Len(weeks) |->
              [i \in 1..Len(weeks[k].contributionDays) |->
                  weeks[k].contributionDays[i].contributionCount]])

Q1(max_contributions) == Max2(1, max_contributions \div 4)
Q2(max_contributions) == Max2(2, max_contributions \div 2)
\* the third threshold at the maximum itself
Q3AtMaximum(max_contributions) == Max2(3, max_contributions)

Q3(max_contributions) == Max2(3, (3 * max_contributions) \div 4)

\* SelectBlock with exclusive upper bounds (< in place of <=)
SelectBlockExclusive(blocks, count, q1, q2, q3) ==
    IF count = 0 THEN blocks[1]
    ELSE IF count < q1 THEN blocks[2]
    ELSE IF count < q2 THEN blocks[3]
    ELSE IF count < q3 THEN blocks[4]
    ELSE blocks[5]

\* lines 473-484: the block of a day with this count
SelectBlock(blocks, count, q1, q2, q3) ==
    IF count = 0 THEN blocks[1]
    ELSE IF count <= q1 THEN blocks[2]
    ELSE IF count <= q2 THEN blocks[3]
    ELSE IF count <= q3 THEN blocks[4]
    ELSE blocks[5]

\* lines 443-452: month labels (0-based week index, month name), scanning
\* weeks 1..n with the running current_month (0 stands for None)
RECURSIVE MonthLabels(_, _, _)
MonthLabels(weeks, k, current_month) ==
    IF k > Len(weeks) THEN <<>>
    ELSE LET days == weeks[k].contributionDays
             tracked == days # <<>> /\ days[1].date.valid
             month_num == days[1].date.month
         IN  IF tracked /\ month_num # current_month
             THEN << <<k - 1, month_abbr[month_num]>> >>
                      \o MonthLabels(weeks, k + 1, month_num)
             ELSE MonthLabels(weeks, k + 1, current_month)

\* lines 454-467: weekday (Sunday = 0) -> the last day of the week on it
DayLookup(week) ==
    LET days == week.contributionDays
        idx(wd) == {i \in 1..Len(days) :
                       days[i].date.valid /\ (Weekday(days[i].date) + 1) % 7 = wd}
    IN  [wd \in {w \in 0..6 : idx(w) # {}} |->
            days[CHOOSE i \in idx(wd) : \A j \in idx(wd) : j <= i]]

\* WeekBlocks with the zero-count block for a weekday absent from the week
WeekBlocksZeroForAbsent(week, blocks, q1, q2, q3) ==
    LET day_lookup == DayLookup(week)
    IN  [day_idx1 \in 1..7 |->
            SelectBlock(blocks,
                        IF (day_idx1 - 1) \in DOMAIN day_lookup
                        THEN day_lookup[day_idx1 - 1].contributionCount ELSE 0,
                        q1, q2, q3)]

\* lines 469-489: the blocks of one week, Sunday to Saturday
WeekBlocks(week, blocks, q1, q2, q3) ==
    LET day_lookup == DayLookup(week)
    IN  [day_idx1 \in 1..7 |->
            IF (day_idx1 - 1) \in DOMAIN day_lookup
            THEN SelectBlock(blocks, day_lookup[day_idx1 - 1].contributionCount,
                             q1, q2, q3)
            ELSE <<" ">>]

\* lines 439, 443-489: horizontal_data[day_idx + 1][week]
RECURSIVE AppendWeeks(_, _, _, _, _, _, _)
AppendWeeks(horizontal_data, weeks, k, blocks, q1, q2, q3) ==
    IF k > Len(weeks) THEN horizontal_data
    ELSE LET wb == WeekBlocks(weeks[k], blocks, q1, q2, q3)
         IN  AppendWeeks([d \in 1..7 |-> Append(horizontal_data[d], wb[d])],
                         weeks, k + 1, blocks, q1, q2, q3)

HorizontalData(weeks, blocks, q1, q2, q3) ==
    AppendWeeks([d \in 1..7 |-> <<>>], weeks, 1, blocks, q1, q2, q3)

\* line 498-499: the gap before a label
LabelGap(week_idx, last_pos) == Repeat(" ", (week_idx - last_pos - 1) * 2)

\* lines 493-501: the month header after labels i..n, from last_pos
RECURSIVE MonthHeaderFrom(_, _, _, _)
MonthHeaderFrom(c, month_labels, i, last_pos) ==
    IF i > Len(month_labels) THEN <<>>
    ELSE LET week_idx == month_labels[i][1]
             month_name == month_labels[i][2]
         IN  LabelGap(week_idx, last_pos)
                 \o Color_color(c, "light_blue", SubSeq(month_name, 1, 3))
                 \o MonthHeaderFrom(c, month_labels, i + 1,
                                    week_idx + (Len(SubSeq(month_name, 1, 3)) \div 2))

MonthHeader(c, month_labels) ==
    <<" ", " ", " ">> \o MonthHeaderFrom(c, month_labels, 1, -3)

\* lines 506-514
day_labels(c) ==
    [i \in 1..7 |-> Color_color(c, "yellow", <<(<<"S","M","T","W","T","F","S">>)[i]>>)]

\* lines 517-527: one weekday row
RECURSIVE JoinBlocks(_)
JoinBlocks(blocks) ==
    IF blocks = <<>> THEN <<>>
    ELSE IF Len(blocks) = 1 THEN blocks[1]
    ELSE blocks[1] \o <<" ">> \o JoinBlocks(Tail(blocks))

GridRow(c, horizontal_data, day_idx1) ==
    day_labels(c)[day_idx1] \o <<" ">> \o JoinBlocks(horizontal_data[day_idx1])

\* lines 530-532
Legend(blocks) ==
    blocks[1] \o <<"N","o","n","e"," ">> \o blocks[2] \o <<"F","e","w"," ">>
        \o blocks[3] \o <<"S","o","m","e"," ">> \o blocks[4] \o <<"M","a","n","y"," ">>
        \o blocks[5] \o <<"L","o","t","s">>

NoFrame ==
    [exit |-> "none", lines |-> <<>>, color |-> ColorInit, contribution_blocks |-> <<>>,
     max_contributions |-> 0, q1 |-> 0, q2 |-> 0, q3 |-> 0,
     month_labels |-> <<>>, horizontal_data |-> <<>>]

\* AbsentLines reduced to the error line alone
AbsentLinesErrorOnly(c) ==
    << Color_color(c, "red", <<"No contribution data available.">>) >>

\* lines 380-387: the lines returned when there is no data at all
AbsentLines(c) ==
    << Color_color(c, "red", <<"No contribution data available.">>),
       Color_color(c, "yellow", <<"Please check if:">>),
       Color_color(c, "yellow",
          <<" ", " ", "1. Your GitHub token is valid (try 'githubfetch --reset-token')">>),
       Color_color(c, "yellow", <<" ", " ", "2. The username exists on GitHub">>),
       Color_color(c, "yellow",
          <<" ", " ", "3. The user has public contribution activity">>) >>

\* IsEmptyCalendar without the test of the total
IsEmptyCalendarNoWeeksOnly(data) == data.weeks = <<>>

\* line 392: the test for a calendar without contributions
IsEmptyCalendar(data) == data.totalContributions = 0 \/ data.weeks = <<>>

\* line 393
EmptyLines(c, username) ==
    << Color_color(c, "yellow",
          <<"No contributions found for user '">> \o username
              \o <<"' in the past year.">>) >>

\* The whole function: the frame at return (exit names the return taken,
\* color is the global instance as the call leaves it).
HeatmapFrame(c, username, data) ==
    IF data.isNone
    THEN [NoFrame EXCEPT !.exit = "absent", !.color = c, !.lines = AbsentLines(c)]
    ELSE IF IsEmptyCalendar(data)
    THEN [NoFrame EXCEPT !.exit = "empty", !.color = c, !.lines = EmptyLines(c, username)]
    ELSE LET blocks == ContributionBlocks(c)
             c2 == SetIfMissing(SetIfMissing(c, "dark_green", DarkGreenCode),
                                "light_green", LightGreenCode)
             all_days == AllDays(data.weeks)
         IN  IF all_days = <<>>
             THEN [NoFrame EXCEPT !.exit = "nodays", !.color = c2,
                     !.contribution_blocks = blocks,
                     !.lines = << Color_color(c2, "yellow",
                                     <<"No contribution data found for '">> \o username
                                         \o <<"' in the past year.">>) >>]
             ELSE LET max_contributions == SeqMax(all_days)
                      q1 == Q1(max_contributions)
                      q2 == Q2(max_contributions)
                      q3 == Q3(max_contributions)
                      month_labels == MonthLabels(data.weeks, 1, 0)
                      horizontal_data == HorizontalData(data.weeks, blocks, q1, q2, q3)
                  IN  [exit |-> "grid", color |-> c2, contribution_blocks |-> blocks,
                       max_contributions |-> max_contributions,
                       q1 |-> q1, q2 |-> q2, q3 |-> q3,
                       month_labels |-> month_labels,
                       horizontal_data |-> horizontal_data,
                       lines |->
                           << Color_color(c2, "green", <<"Contributions:">>) \o <<" ">>
                                \o Color_color(c2, "yellow", Str(data.totalContributions)) >>
                           \o (IF month_labels # <<>>
                               THEN <<MonthHeader(c2, month_labels)>> ELSE <<>>)
                           \o [d \in 1..7 |-> GridRow(c2, horizontal_data, d)]
                           \o <<Legend(blocks)>>]

(***************************************************************************)
(* trim_trailing_empty_lines(lines)                                        *)
(***************************************************************************)
\* what str.strip() removes at both ends (escape codes are not whitespace)
Whitespace == {" ", "\t"}

RECURSIVE LStrip(_)
LStrip(line) ==
    IF line # <<>> /\ Head(line) \in Whitespace THEN LStrip(Tail(line)) ELSE line

RECURSIVE RStrip(_)
RStrip(line) ==
    IF line # <<>> /\ line[Len(line)] \in Whitespace
    THEN RStrip(SubSeq(line, 1, Len(line) - 1)) ELSE line

\* a strip that also drops the escape codes of the line
StripFormatting(line) ==
    LET RECURSIVE Visible(_)
        Visible(l) == IF l = <<>> THEN <<>>
                      ELSE IF Head(l) \in EscapeCodes THEN Visible(Tail(l))
                      ELSE <<Head(l)>> \o Visible(Tail(l))
    IN  RStrip(LStrip(Visible(line)))

\* str.strip()
Strip(line) == RStrip(LStrip(line))

\* a scan that gives up after stepping over one line
LastNonEmptyOneStep(ls, i) ==
    IF i >= 1 /\ Strip(ls[i]) = <<>> THEN i - 1 ELSE i

\* lines 615-617: the 1-based index of the last non-empty line at or below i
RECURSIVE LastNonEmpty(_, _)
LastNonEmpty(ls, i) ==
    IF i >= 1 /\ Strip(ls[i]) = <<>> THEN LastNonEmpty(ls, i - 1) ELSE i

\* lines 609-620
trim_trailing_empty_lines(ls) ==
    IF ls = <<>> THEN ls ELSE SubSeq(ls, 1, LastNonEmpty(ls, Len(ls)))

(***************************************************************************)
(* textwrap.wrap(text, width), for texts without tabs and hyphens.         *)
(***************************************************************************)
\* TextWrapper._split_chunks: maximal runs of whitespace and of other characters
RECURSIVE SplitChunks(_)
SplitChunks(text) ==
    IF text = <<>> THEN <<>>
    ELSE LET sp == Head(text) \in Whitespace
             n == CHOOSE i \in 1..Len(text) :
                     /\ \A j \in 1..i : (text[j] \in Whitespace) = sp
                     /\ i = Len(text) \/ (text[i + 1] \in Whitespace) # sp
         IN  <<IF sp THEN Repeat(" ", n) ELSE SubSeq(text, 1, n)>>
                 \o SplitChunks(SubSeq(text, n + 1, Len(text)))

\* _wrap_chunks, inner loop: chunks are taken while they fit in width
RECURSIVE FillLine(_, _, _)
FillLine(cur_line, chunks, width) ==
    IF chunks # <<>> /\ Len(Concat(cur_line)) + Len(Head(chunks)) <= width
    THEN FillLine(Append(cur_line, Head(chunks)), Tail(chunks), width)
    ELSE <<cur_line, chunks>>

\* _wrap_chunks, outer loop (drop_whitespace and break_long_words are on);
\* has_lines says that a line has been produced already
RECURSIVE WrapChunks(_, _, _)
WrapChunks(chunks0, width, has_lines) ==
    IF chunks0 = <<>> THEN <<>>
    ELSE LET chunks1 == IF has_lines /\ Strip(Head(chunks0)) = <<>>
                        THEN Tail(chunks0) ELSE chunks0
             filled == FillLine(<<>>, chunks1, width)
             cur1 == filled[1]
             rest1 == filled[2]
             long == rest1 # <<>> /\ Len(Head(rest1)) > width
             space_left == IF width < 1 THEN 1 ELSE width - Len(Concat(cur1))
             cur2 == IF long THEN Append(cur1, SubSeq(Head(rest1), 1, space_left))
                     ELSE cur1
             rest2 == IF long
                      THEN <<SubSeq(Head(rest1), space_left + 1, Len(Head(rest1)))>>
                               \o Tail(rest1)
                      ELSE rest1
             cur3 == IF cur2 # <<>> /\ Strip(cur2[Len(cur2)]) = <<>>
                     THEN SubSeq(cur2, 1, Len(cur2) - 1) ELSE cur2
         IN  IF cur3 # <<>>
             THEN <<Concat(cur3)>> \o WrapChunks(rest2, width, TRUE)
             ELSE WrapChunks(rest2, width, has_lines)

\* _wrap_chunks with break_long_words off: a chunk longer than width is
\* taken whole by an empty line
RECURSIVE WrapChunksKeeping(_, _, _)
WrapChunksKeeping(chunks0, width, has_lines) ==
    IF chunks0 = <<>> THEN <<>>
    ELSE LET chunks1 == IF has_lines /\ Strip(Head(chunks0)) = <<>>
                        THEN Tail(chunks0) ELSE chunks0
             filled == FillLine(<<>>, chunks1, width)
             long == filled[2] # <<>> /\ Len(Head(filled[2])) > width /\ filled[1] = <<>>
             cur2 == IF long THEN <<Head(filled[2])>> ELSE filled[1]
             rest2 == IF long THEN Tail(filled[2]) ELSE filled[2]
             cur3 == IF cur2 # <<>> /\ Strip(cur2[Len(cur2)]) = <<>>
                     THEN SubSeq(cur2, 1, Len(cur2) - 1) ELSE cur2
         IN  IF cur3 # <<>>
             THEN <<Concat(cur3)>> \o WrapChunksKeeping(rest2, width, TRUE)
             ELSE WrapChunksKeeping(rest2, width, has_lines)

\* textwrap.wrap that keeps long words whole
WrapKeepingLongWords(text, width) == WrapChunksKeeping(SplitChunks(text), width, FALSE)

\* textwrap.wrap for width > 0 (width <= 0 raises ValueError: see WrapRaises)
Wrap(text, width) == WrapChunks(SplitChunks(text), width, FALSE)

WrapRaises(width) == width <= 0

(***************************************************************************)
(* create_hyperlink and get_user_info_lines                                *)
(***************************************************************************)
\* line 59: OSC 8 link; the url is part of the escape sequence
create_hyperlink(url, text) == <<"ESC]8;;">> \o url \o <<"BEL">> \o text \o <<"ESC]8;;", "BEL">>

Ljust(text, n) == text \o Repeat(" ", n - Len(text))

NA == <<"N", "/", "A">>
NotProvided == <<"N", "o", "t", " ", "P", "r", "o", "v", "i", "d", "e", "d">>

\* lines 627-630: the fields in order, missing texts replaced (x or 'N/A')
InfoFields(data, starred) ==
    << [label |-> <<"W", "e", "b", "s", "i", "t", "e">>, value |-> IF data.blog # <<>> THEN data.blog ELSE NA],
       [label |-> <<"R", "e", "p", "o", "s">>, value |-> Str(data.public_repos)],
       [label |-> <<"B", "i", "o">>, value |-> IF data.bio # <<>> THEN data.bio ELSE NA],
       [label |-> <<"F", "r", "o", "m">>,
        value |-> IF data.location # <<>> THEN data.location ELSE NotProvided],
       [label |-> <<"F", "o", "l", "l", "o", "w", "e", "r", "s">>, value |-> Str(data.followers)],
       [label |-> <<"F", "o", "l", "l", "o", "w", "i", "n", "g">>, value |-> Str(data.following)],
       [label |-> <<"S", "t", "a", "r", "r", "e", "d">>, value |-> Str(starred)] >>

\* line 631
max_label_len(fields) == SeqMax([i \in 1..Len(fields) |-> Len(fields[i].label)])

HasScheme(value) ==
    \/ Len(value) >= 7 /\ SubSeq(value, 1, 7) = <<"h", "t", "t", "p", ":", "/", "/">>
    \/ Len(value) >= 8 /\ SubSeq(value, 1, 8) = <<"h", "t", "t", "p", "s", ":", "/", "/">>

\* lines 640-655: the lines of one field, or the exception its wrapping raises
FieldLines(c, field, width_label, text_width) ==
    LET formatted_label == Color_color(c, "yellow", Ljust(field.label \o <<":">>, width_label))
        wrapped_value == Wrap(field.value, text_width)
        rest == [i \in 1..(Len(wrapped_value) - 1) |->
                    Repeat(" ", width_label) \o Color_color(c, "reset", wrapped_value[i + 1])]
    IN  IF field.label = <<"W", "e", "b", "s", "i", "t", "e">> /\ field.value # <<>> /\ field.value # NA
        THEN IF WrapRaises(text_width) THEN [raised |-> "ValueError", lines |-> <<>>]
             ELSE IF wrapped_value = <<>> THEN [raised |-> "IndexError", lines |-> <<>>]
             ELSE [raised |-> "none",
                   lines |-> <<formatted_label \o Color_color(c, "reset",
                                  create_hyperlink(
                                     IF HasScheme(field.value) THEN field.value
                                     ELSE <<"h", "t", "t", "p", "s", ":", "/", "/">> \o field.value,
                                     wrapped_value[1]))>> \o rest]
        ELSE IF field.label = <<"B", "i", "o">> /\ field.value # NA
        THEN IF WrapRaises(text_width) THEN [raised |-> "ValueError", lines |-> <<>>]
             ELSE IF wrapped_value = <<>> THEN [raised |-> "IndexError", lines |-> <<>>]
             ELSE [raised |-> "none",
                   lines |-> <<formatted_label \o Color_color(c, "reset", wrapped_value[1])>>
                                \o rest]
        ELSE [raised |-> "none",
              lines |-> <<formatted_label \o Color_color(c, "reset", field.value)>>]

\* lines 660-678: the lines of one pinned repository
RepoLines(c, username, repo, text_width) ==
    LET lang_dot == Color_color(c, IF repo.primaryLanguage THEN "green" ELSE "reset", <<"O">>)
        repo_owner == IF repo.owner # <<>> THEN repo.owner ELSE username
        repo_url == <<"https://github.com/">> \o repo_owner \o <<"/">> \o repo.name
        repo_name == create_hyperlink(repo_url, Color_color(c, "orange", repo.name))
        stars == Color_color(c, "yellow", <<"*", " ">> \o Str(repo.stargazerCount))
        forks == Color_color(c, "light_blue", <<"Y", " ">> \o Str(repo.forkCount))
        summary == <<" ">> \o lang_dot \o <<" ">> \o repo_name \o <<" ", "(">> \o stars
                       \o <<" ", "/", " ">> \o forks \o <<")">>
        wrapped_description == Wrap(repo.description, text_width - 3)
    IN  IF repo.description = <<>> THEN [raised |-> "none", lines |-> <<summary>>]
        ELSE IF WrapRaises(text_width - 3) THEN [raised |-> "ValueError", lines |-> <<>>]
        ELSE [raised |-> "none",
              lines |-> <<summary>> \o
                  [i \in 1..Len(wrapped_description) |->
                      <<" ", " ", " ">> \o Color_color(c, "reset", wrapped_description[i])]]

\* the parts in order, up to the first that raises
RECURSIVE Gather(_)
Gather(parts) ==
    IF parts = <<>> THEN [raised |-> "none", lines |-> <<>>]
    ELSE IF Head(parts).raised # "none" THEN Head(parts)
    ELSE LET rest == Gather(Tail(parts))
         IN  IF rest.raised # "none" THEN rest
             ELSE [raised |-> "none", lines |-> Head(parts).lines \o rest.lines]

\* lines 624-680: the lines, or the exception raised (then without lines)
get_user_info_lines(c, data, starred, repos, text_width) ==
    LET username == data.login
        fields == InfoFields(data, starred)
        width_label == max_label_len(fields) + 2
        profile_url == <<"https://github.com/">> \o username
        display_title == Color_color(c, "green", username) \o Color_color(c, "reset", <<"@">>)
                            \o Color_color(c, "green", <<"g", "i", "t", "h", "u", "b">>)
        head == [raised |-> "none",
                 lines |-> << create_hyperlink(profile_url, display_title),
                              Color_color(c, "green", Repeat("-", Len(username) + 7)) >>]
        field_parts == [i \in 1..Len(fields) |->
                           FieldLines(c, fields[i], width_label, text_width)]
        repo_parts ==
            IF repos = <<>> THEN <<>>
            ELSE << [raised |-> "none",
                     lines |-> <<Color_color(c, "green", <<"Pinned Repositories:">>)>>] >>
                 \o [i \in 1..Len(repos) |->
                        RepoLines(c, username, repos[i], text_width)]
    IN  Gather(<<head>> \o field_parts \o repo_parts)

(***************************************************************************)
(* The calendars the renderer is given: what the contribution query        *)
(* returns, a window of consecutive days grouped into Sunday-first weeks   *)
(* (partial weeks at both ends), or None.                                  *)
(***************************************************************************)
NoneData == [isNone |-> TRUE, totalContributions |-> 0, weeks |-> <<>>]

Date(y, m, d) == [valid |-> TRUE, year |-> y, month |-> m, day |-> d]

NextDate(d) ==
    IF d.day < DaysInMonth(d.year, d.month) THEN [d EXCEPT !.day = @ + 1]
    ELSE IF d.month < 12 THEN [d EXCEPT !.month = @ + 1, !.day = 1]
    ELSE [d EXCEPT !.year = @ + 1, !.month = 1, !.day = 1]

RECURSIVE Window(_, _)
Window(start, n) == IF n = 0 THEN <<>> ELSE <<start>> \o Window(NextDate(start), n - 1)

\* the ordinal of the Sunday that begins the week of d
WeekStart(d) == ToOrdinal(d) - ((Weekday(d) + 1) % 7)

RECURSIVE GroupWeeks(_)
GroupWeeks(days) ==
    IF days = <<>> THEN <<>>
    ELSE LET k == Cardinality({i \in 1..Len(days) :
                                  WeekStart(days[i].date) = WeekStart(days[1].date)})
         IN  << [contributionDays |-> SubSeq(days, 1, k)] >>
                 \o GroupWeeks(SubSeq(days, k + 1, Len(days)))

\* day i of the window carries pat[1] or pat[2], alternating
WindowDays(start, n, pat) ==
    LET dates == Window(start, n)
    IN  [i \in 1..n |-> [date |-> dates[i], contributionCount |-> pat[2 - (i % 2)]]]

\* a defect of the data: day j missing, or day j without a date
Defective(weeks, kind, j) ==
    IF kind = "nodate"
    THEN [k \in 1..Len(weeks) |->
            [contributionDays |->
                [i \in 1..Len(weeks[k].contributionDays) |->
                    IF Len(AllDays(SubSeq(weeks, 1, k - 1))) + i = j
                    THEN [weeks[k].contributionDays[i] EXCEPT !.date.valid = FALSE]
                    ELSE weeks[k].contributionDays[i]]]]
    ELSE weeks

\* a Sunday, a Thursday before a month change, a Saturday in a leap February
StartDates == {Date(2023, 1, 8), Date(2023, 11, 30), Date(2024, 2, 24)}
DensePatterns == (0..MaxCount) \X (0..MaxCount)
SparsePatterns == {<<0, 0>>, <<0, 1>>, <<3, 0>>}

WeeksInputs ==
    {GroupWeeks(WindowDays(s, n, pat)) :
        s \in StartDates, n \in 0..ShortDays, pat \in DensePatterns}
    \cup {GroupWeeks(WindowDays(s, n, pat)) :
        s \in StartDates, n \in (ShortDays + 1)..MaxDays, pat \in SparsePatterns}
    \cup {Defective(GroupWeeks(WindowDays(s, n, pat)), "nodate", j) :
        s \in StartDates, n \in 1..ShortDays, pat \in SparsePatterns, j \in 1..ShortDays}
    \cup {<< [contributionDays |-> <<>>] >>}

CalendarInputs ==
    {NoneData} \cup
    UNION {{[isNone |-> FALSE, totalContributions |-> t, weeks |-> w] :
               t \in {0, SeqSum(AllDays(w)), SeqSum(AllDays(w)) + 1}} :
           w \in WeeksInputs}

\* a profile without blog, bio and location
PlainUser ==
    [login |-> <<"a", "b">>, blog |-> <<>>, bio |-> <<>>, location |-> <<>>,
     public_repos |-> 3, followers |-> 10, following |-> 2]

\* the frame of display_side_by_side before the call
NoDisplay ==
    [show_heatmap |-> FALSE, branch |-> "none", failure |-> "none",
     width_px |-> 0, height_px |-> 0, image_width_cells |-> 0,
     text_start_column |-> 0, available_text_width |-> 0,
     text_width |-> 0, heatmap_text_width |-> 0,
     repos_shown |-> <<>>, user_info_lines |-> <<>>, heatmap_lines |-> <<>>,
     display_lines |-> <<>>]

\* display_side_by_side is not running
DisplayIdle ==
    /\ starred_count = 0 /\ pinned_repos = <<>> /\ terminal_width = 80
    /\ imgcat_path = "unset" /\ dsp = NoDisplay
    /\ stdout = <<>> /\ stderr = <<>> /\ exc = "none"

\* None, and the empty string: both are false in a condition
NoToken == <<>>

\* no token in the file or in the environment, setup_github_token not called
NoSetup ==
    [entry |-> "none", file |-> NoToken, env |-> NoToken, token |-> NoToken,
     attempts |-> 0, returned |-> FALSE, result |-> NoToken, passed |-> {}, failed |-> {},
     sent |-> NoToken]

\* get_user_info_lines has not been called on its own, main is not running,
\* the token is not being set up
OuterIdle ==
    /\ info_width = 0
    /\ info_result = [raised |-> "none", lines |-> <<>>]
    /\ heatmap_requested = FALSE
    /\ tok = NoSetup

(***************************************************************************)
(* SpecHeatmap: the renderer applied to every calendar, up to MaxCalls     *)
(* times in one process (the colour helper is shared between the calls).   *)
(***************************************************************************)
\* the variables of display_side_by_side and of its environment
display_vars == <<starred_count, pinned_repos, terminal_width, imgcat_path, dsp,
                  stdout, stderr, exc>>

\* the variables of get_user_info_lines called on its own, and of main
outer_vars == <<info_width, info_result, heatmap_requested, tok>>

vars == <<pc, color, contributions_data, hm, hm_calls, user_data, lines, trimmed, retrimmed,
          starred_count, pinned_repos, terminal_width, imgcat_path, dsp, stdout, stderr, exc,
          info_width, info_result, heatmap_requested, tok>>

InitHeatmap ==
    /\ pc = "heatmap"
    /\ color = ColorInit
    /\ contributions_data \in CalendarInputs
    /\ hm = NoFrame
    /\ hm_calls = 0
    /\ user_data = PlainUser
    /\ lines = <<>> /\ trimmed = <<>> /\ retrimmed = <<>>
    /\ DisplayIdle
    /\ OuterIdle

get_contributions_heatmap_lines ==
    /\ pc = "heatmap"
    /\ hm_calls < MaxCalls
    /\ hm' = HeatmapFrame(color, user_data.login, contributions_data)
    /\ color' = hm'.color
    /\ hm_calls' = hm_calls + 1
    /\ UNCHANGED <<pc, contributions_data, user_data, lines, trimmed, retrimmed>>
    /\ UNCHANGED display_vars
    /\ UNCHANGED outer_vars

NextHeatmap == get_contributions_heatmap_lines

SpecHeatmap == InitHeatmap /\ [][NextHeatmap]_vars


(***************************************************************************)
(* display_side_by_side(user_data, starred_count, pinned_repos,            *)
(*                      contributions_data)                                *)
(***************************************************************************)
IMAGE_HEIGHT_CELLS == 15
TEXT_GAP == 6
\* line 773, 779: the columns the text-only branch keeps free
TEXT_ONLY_MARGIN == 10

\* line 703-704: int(IMAGE_HEIGHT_CELLS * (width_px / height_px) * 2.0); int()
\* truncates, and for the sizes of ImageSizes the floating-point product has
\* the integer part of the exact quotient
\* the width rounded to the nearest integer instead of truncated
ImageWidthCellsRounded(width_px, height_px) ==
    (2 * IMAGE_HEIGHT_CELLS * width_px * 2 + height_px) \div (2 * height_px)

ImageWidthCells(width_px, height_px) ==
    (IMAGE_HEIGHT_CELLS * width_px * 2) \div height_px

\* the repositories handed on whether or not a calendar is shown
ReposShownAlways(show_heatmap, repos) == repos

\* lines 736, 772: the repositories handed to the formatter
ReposShown(show_heatmap, repos) == IF show_heatmap THEN <<>> ELSE repos

\* the two blocks joined with an empty line between them, without trimming
CombineLinesSpaced(user_info_lines, heatmap_lines) ==
    user_info_lines \o <<<<>>>> \o heatmap_lines

\* lines 742-745, 778-781: profile lines and heatmap lines combined
CombineLines(user_info_lines, heatmap_lines) ==
    trim_trailing_empty_lines(user_info_lines) \o heatmap_lines

\* what the terminal receives: cursor moves, printed lines, the painted image
CursorUp(n) == [op |-> "up", n |-> n, text |-> <<>>]
CursorRight(n) == [op |-> "right", n |-> n, text |-> <<>>]
CursorDown(n) == [op |-> "down", n |-> n, text |-> <<>>]
PrintLine(text) == [op |-> "print", n |-> 0, text |-> text]
PaintedImage(rows) == [op |-> "image", n |-> rows, text |-> <<>>]

\* an except clause that reports the failure and lets it leave the function
CaughtAndRaisedAgain(failure, kind) ==
    /\ exc' = kind
    /\ stderr' = Append(stderr, <<"Error displaying avatar: ", kind>>)
    /\ dsp' = [dsp EXCEPT !.failure = failure]
    /\ pc' = "raised"

\* lines 763-765: the except clause of the image branch
Caught(failure, kind) ==
    /\ exc' = kind
    /\ stderr' = Append(stderr, <<"Error displaying avatar: ", kind>>)
    /\ dsp' = [dsp EXCEPT !.failure = failure]
    /\ pc' = "fallback"

\* lines 684-694: entry, and the check for the paint capability
CheckImgcat ==
    /\ pc = "display"
    /\ \E r \in {"True", "/usr/bin/imgcat", "False"} :
          /\ imgcat_path' = r
          /\ pc' = IF r # "False" THEN "get_avatar" ELSE "fallback"
    /\ dsp' = [dsp EXCEPT !.show_heatmap = ~contributions_data.isNone]
    /\ UNCHANGED outer_vars
    /\ UNCHANGED <<color, contributions_data, hm, hm_calls, user_data, lines, trimmed,
                   retrimmed, starred_count, pinned_repos, terminal_width,
                   stdout, stderr, exc>>

\* lines 696-700: requests.get(avatar_url), raise_for_status
GetAvatar ==
    /\ pc = "get_avatar"
    /\ \/ /\ pc' = "open_image"
          /\ UNCHANGED <<dsp, stderr, exc>>
       \/ Caught("fetch", "RequestException")
    /\ UNCHANGED outer_vars
    /\ UNCHANGED <<color, contributions_data, hm, hm_calls, user_data, lines, trimmed,
                   retrimmed, starred_count, pinned_repos, terminal_width, imgcat_path,
                   stdout>>

\* the pixel sizes of the avatars: 1:1, 3:7, 3:4, 2:1
ImageSizes == {<<1, 1>>, <<3, 7>>, <<3, 4>>, <<2, 1>>}

\* lines 701-708: Image.open, the geometry
OpenImage ==
    /\ pc = "open_image"
    /\ \/ \E size \in ImageSizes :
             LET cells == ImageWidthCells(size[1], size[2])
             IN  /\ dsp' = [dsp EXCEPT !.branch = "image",
                                       !.width_px = size[1], !.height_px = size[2],
                                       !.image_width_cells = cells,
                                       !.text_start_column = cells + TEXT_GAP,
                                       !.available_text_width =
                                            terminal_width - (cells + TEXT_GAP)]
                 /\ pc' = "probe_imgcat"
                 /\ UNCHANGED <<stderr, exc>>
       \/ Caught("decode", "UnidentifiedImageError")
    /\ UNCHANGED outer_vars
    /\ UNCHANGED <<color, contributions_data, hm, hm_calls, user_data, lines, trimmed,
                   retrimmed, starred_count, pinned_repos, terminal_width, imgcat_path,
                   stdout>>

paint_unchanged ==
    UNCHANGED <<tok, info_width, info_result, heatmap_requested, color, contributions_data, hm,
                hm_calls, user_data, lines, trimmed, retrimmed, starred_count, pinned_repos, terminal_width, imgcat_path>>

\* line 719-722: imgcat --help, and the option it names
ProbeImgcat ==
    /\ pc = "probe_imgcat"
    /\ pc' \in {"paint_height", "paint_H", "retry_height"}
    /\ UNCHANGED <<dsp, stdout, stderr, exc>>
    /\ paint_unchanged

\* one run of imgcat that must succeed (check=True): the image is painted and
\* the text is formatted next, or the run fails and control goes to on_failure
RunImgcat(at, rows, on_failure) ==
    /\ pc = at
    /\ \/ /\ stdout' = Append(stdout, PaintedImage(rows))
          /\ pc' = "format_beside_image"
       \/ /\ pc' = on_failure
          /\ UNCHANGED stdout
    /\ UNCHANGED <<dsp, stderr, exc>>
    /\ paint_unchanged

\* line 723
PaintHeight == RunImgcat("paint_height", IMAGE_HEIGHT_CELLS, "retry_height")

\* line 726
PaintH == RunImgcat("paint_H", IMAGE_HEIGHT_CELLS, "retry_height")

\* lines 727-730
RetryHeight == RunImgcat("retry_height", IMAGE_HEIGHT_CELLS, "paint_plain")

\* lines 731-732: the last attempt, without a height; its failure is not
\* caught by the inner handlers
PaintPlain ==
    /\ pc = "paint_plain"
    /\ \/ /\ stdout' = Append(stdout, PaintedImage(0))
          /\ pc' = "format_beside_image"
          /\ UNCHANGED <<dsp, stderr, exc>>
       \/ /\ Caught("paint", "CalledProcessError")
          /\ UNCHANGED stdout
    /\ paint_unchanged

\* lines 735-737, 771-773: the profile lines at this width, or the exception
UserInfoLines(text_width) ==
    get_user_info_lines(color, user_data, starred_count,
                        ReposShown(dsp.show_heatmap, pinned_repos), text_width)

\* lines 743, 779: the renderer's frame when a calendar is shown
HeatmapCalled ==
    IF dsp.show_heatmap THEN HeatmapFrame(color, user_data.login, contributions_data)
    ELSE NoFrame

\* lines 740-747, 776-783: the lines to display
DisplayLines(user_info_lines, heatmap_lines) ==
    IF dsp.show_heatmap THEN CombineLines(user_info_lines, heatmap_lines)
    ELSE user_info_lines

\* lines 735-747, 771-783: the locals after the lines are formatted, and the
\* effect of the renderer on the colour helper
Formatted(branch, text_width, info, frame) ==
    /\ dsp' = [dsp EXCEPT !.branch = branch,
                          !.text_width = text_width,
                          !.heatmap_text_width =
                               IF dsp.show_heatmap THEN text_width ELSE @,
                          !.repos_shown = ReposShown(dsp.show_heatmap, pinned_repos),
                          !.user_info_lines = info.lines,
                          !.heatmap_lines = frame.lines,
                          !.display_lines = DisplayLines(info.lines, frame.lines)]
    /\ IF dsp.show_heatmap
       THEN hm' = frame /\ color' = frame.color /\ hm_calls' = hm_calls + 1
       ELSE UNCHANGED <<hm, color, hm_calls>>

\* lines 734-747: the text beside the image; an exception of the formatter
\* is caught by the except clause of the image branch (763-765)
FormatBesideImage ==
    /\ pc = "format_beside_image"
    /\ \E info \in {UserInfoLines(dsp.available_text_width)} :
          IF info.raised # "none"
          THEN /\ exc' = info.raised
               /\ stderr' = Append(stderr, <<"Error displaying avatar: ", info.raised>>)
               /\ dsp' = [dsp EXCEPT !.failure = "format",
                                     !.text_width = dsp.available_text_width]
               /\ pc' = "fallback"
               /\ UNCHANGED <<hm, color, hm_calls>>
          ELSE /\ \E frame \in {HeatmapCalled} :
                     Formatted("image", dsp.available_text_width, info, frame)
               /\ pc' = "print_beside_image"
               /\ UNCHANGED <<stderr, exc>>
    /\ UNCHANGED outer_vars
    /\ UNCHANGED <<contributions_data, user_data, lines, trimmed, retrimmed,
                   starred_count, pinned_repos, terminal_width, imgcat_path, stdout>>

\* lines 752-755: each line printed, the cursor moved right before the next
\* PrintedBeside with the rightward move after every line, the last included
RECURSIVE PrintedBesideMoveAfterEach(_, _)
PrintedBesideMoveAfterEach(display_lines, text_start_column) ==
    IF display_lines = <<>> THEN <<>>
    ELSE <<PrintLine(Head(display_lines)), CursorRight(text_start_column)>>
           \o PrintedBesideMoveAfterEach(Tail(display_lines), text_start_column)

RECURSIVE PrintedBeside(_, _)
PrintedBeside(display_lines, text_start_column) ==
    IF display_lines = <<>> THEN <<>>
    ELSE <<PrintLine(Head(display_lines))>>
           \o (IF Len(display_lines) > 1 THEN <<CursorRight(text_start_column)>> ELSE <<>>)
           \o PrintedBeside(Tail(display_lines), text_start_column)

\* no move down whatever the number of lines
LinesToMoveDownNever(n) == 0

\* line 758: the rows to move down after n lines
LinesToMoveDown(n) == Max2(0, IMAGE_HEIGHT_CELLS - n)

\* lines 749-762
PrintBesideImage ==
    /\ pc = "print_beside_image"
    /\ LET lines_to_move_down == LinesToMoveDown(Len(dsp.display_lines))
       IN  stdout' = stdout
               \o <<CursorUp(IMAGE_HEIGHT_CELLS), CursorRight(dsp.text_start_column)>>
               \o PrintedBeside(dsp.display_lines, dsp.text_start_column)
               \o (IF lines_to_move_down > 0 THEN <<CursorDown(lines_to_move_down)>>
                   ELSE <<>>)
               \o <<PrintLine(<<>>)>>
    /\ pc' = "done"
    /\ UNCHANGED outer_vars
    /\ UNCHANGED <<color, contributions_data, hm, hm_calls, user_data, lines, trimmed,
                   retrimmed, starred_count, pinned_repos, terminal_width, imgcat_path,
                   dsp, stderr, exc>>

\* the whole terminal width as the text width
TextOnlyWidthFull(columns) == columns

\* lines 773, 779: the width given to the formatters in the text-only branch
TextOnlyWidth(columns) == columns - TEXT_ONLY_MARGIN

\* lines 767-788: the text-only display; an exception of the formatter
\* leaves display_side_by_side
TextOnly ==
    /\ pc = "fallback"
    /\ \E text_width \in {TextOnlyWidth(terminal_width)} :
       \E info \in {UserInfoLines(text_width)} :
          IF info.raised # "none"
          THEN /\ exc' = info.raised
               /\ dsp' = [dsp EXCEPT !.branch = "text", !.text_width = text_width]
               /\ pc' = "raised"
               /\ UNCHANGED <<hm, color, hm_calls, stdout>>
          ELSE /\ \E frame \in {HeatmapCalled} :
                     /\ Formatted("text", text_width, info, frame)
                     /\ \E display_lines \in {DisplayLines(info.lines, frame.lines)} :
                           stdout' = stdout \o <<PrintLine(<<>>)>>
                              \o [i \in 1..Len(display_lines) |->
                                     PrintLine(<<" ", " ">> \o display_lines[i])]
                              \o <<PrintLine(<<>>)>>
               /\ pc' = "done"
               /\ UNCHANGED exc
    /\ UNCHANGED outer_vars
    /\ UNCHANGED <<contributions_data, user_data, lines, trimmed, retrimmed,
                   starred_count, pinned_repos, terminal_width, imgcat_path, stderr>>

(***************************************************************************)
(* Spec: one call of display_side_by_side, for every profile, repository   *)
(* list, calendar and terminal width of the input sets.                    *)
(***************************************************************************)
UserDataInputs ==
    { PlainUser,
      [PlainUser EXCEPT !.blog = <<"x", ".", "i", "o">>, !.bio = <<"h", "i", " ", "a", "l", "l", " ", "y", "o", "u">>, !.location = <<"R">>],
      [PlainUser EXCEPT !.bio = <<" ">>] }

PinnedInputs ==
    { <<>>,
      << [name |-> <<"r", "p">>, owner |-> <<"z">>, description |-> <<"s", "o", "m", "e", " ", "w", "o", "r", "d", "s", " ", "h", "e", "r", "e">>,
          stargazerCount |-> 4, forkCount |-> 1, primaryLanguage |-> TRUE],
         [name |-> <<"q">>, owner |-> <<>>, description |-> <<>>,
          stargazerCount |-> 0, forkCount |-> 12, primaryLanguage |-> FALSE] >> }

DisplayCalendars ==
    { NoneData,
      [isNone |-> FALSE, totalContributions |-> 0,
       weeks |-> GroupWeeks(WindowDays(Date(2023, 11, 30), 4, <<0, 0>>))],
      [isNone |-> FALSE, totalContributions |-> 11,
       weeks |-> GroupWeeks(WindowDays(Date(2023, 11, 30), 4, <<4, 1>>))] }

TerminalWidths == {8, 30, 80}

Init ==
    /\ pc = "display"
    /\ color = ColorInit
    /\ user_data \in UserDataInputs
    /\ starred_count = 5
    /\ pinned_repos \in PinnedInputs
    /\ contributions_data \in DisplayCalendars
    /\ terminal_width \in TerminalWidths
    /\ imgcat_path = "unset"
    /\ dsp = NoDisplay
    /\ stdout = <<>> /\ stderr = <<>> /\ exc = "none"
    /\ hm = NoFrame /\ hm_calls = 0
    /\ lines = <<>> /\ trimmed = <<>> /\ retrimmed = <<>>
    /\ OuterIdle

Next ==
    \/ CheckImgcat
    \/ GetAvatar
    \/ OpenImage
    \/ ProbeImgcat
    \/ PaintHeight
    \/ PaintH
    \/ RetryHeight
    \/ PaintPlain
    \/ FormatBesideImage
    \/ PrintBesideImage
    \/ TextOnly

Spec == Init /\ [][Next]_vars


(***************************************************************************)
(* SpecInfo: get_user_info_lines called on its own, for every profile,     *)
(* repository list and text width of the input sets.                       *)
(***************************************************************************)
\* missing or empty, whitespace-only, a short text, a word of 8 letters
InfoBlogs == {<<>>, <<" ">>, <<"x", ".", "i", "o">>, <<"a", "b", "c", "d", "e", "f", "g", "h">>}
\* missing or empty, whitespace-only, short words, a word of 10 letters first
InfoBios == {<<>>, <<" ">>, <<"h", "i", " ", "a", "l", "l", " ", "y", "o", "u">>, <<"a", "b", "c", "d", "e", "f", "g", "h", "i", "j", " ", "k", "l", "m">>}
InfoLocations == {<<>>, <<" ">>, <<"R">>}

InfoUsers ==
    {[PlainUser EXCEPT !.blog = b, !.bio = o, !.location = l] :
        b \in InfoBlogs, o \in InfoBios, l \in InfoLocations}

InfoRepos ==
    PinnedInputs \cup
    { << [name |-> <<"q">>, owner |-> <<>>, description |-> <<"a", "b", "c", "d", "e", "f", "g", "h", " ", "i", "j">>,
          stargazerCount |-> 0, forkCount |-> 2, primaryLanguage |-> FALSE] >> }

InfoWidths == {-2, 0, 1, 3, 4, 6, 12, 44}

InitInfo ==
    /\ pc = "info"
    /\ color = ColorInit
    /\ user_data \in InfoUsers
    /\ starred_count = 5
    /\ pinned_repos \in InfoRepos
    /\ info_width \in InfoWidths
    /\ info_result = [raised |-> "none", lines |-> <<>>]
    /\ heatmap_requested = FALSE
    /\ tok = NoSetup
    /\ contributions_data = NoneData
    /\ terminal_width = 80
    /\ imgcat_path = "unset" /\ dsp = NoDisplay
    /\ stdout = <<>> /\ stderr = <<>> /\ exc = "none"
    /\ hm = NoFrame /\ hm_calls = 0
    /\ lines = <<>> /\ trimmed = <<>> /\ retrimmed = <<>>

\* lines 624-680: the call; an exception leaves the function
GetUserInfoLines ==
    /\ pc = "info"
    /\ \E r \in {get_user_info_lines(color, user_data, starred_count, pinned_repos,
                                       info_width)} :
          /\ info_result' = r
          /\ exc' = r.raised
          /\ pc' = IF r.raised = "none" THEN "info_returned" ELSE "info_raised"
    /\ UNCHANGED <<color, contributions_data, hm, hm_calls, user_data, lines, trimmed,
                   retrimmed, starred_count, pinned_repos, terminal_width, imgcat_path,
                   dsp, stdout, stderr, info_width, heatmap_requested, tok>>

NextInfo == GetUserInfoLines

SpecInfo == InitInfo /\ [][NextInfo]_vars

(***************************************************************************)
(* SpecMain: main from the fetch of the profile on (lines 899-921), with   *)
(* and without '--heatmap', followed by display_side_by_side.              *)
(***************************************************************************)
\* what fetch_contributions_data writes and returns: None after a message on
\* the error stream (no token: 275-277; a failed call: 325-372, after two
\* progress lines), or the calendar after three progress lines
FetchContributionsOutcomes ==
    { [data |-> NoneData,
       out |-> <<>>,
       err |-> <<<<"Warning: GitHub token not set. Cannot fetch contribution data.">>>>],
      [data |-> NoneData,
       out |-> <<PrintLine(<<"Fetching contributions for ">>),
                 PrintLine(<<"Sending GraphQL request to GitHub API...">>)>>,
       err |-> <<<<"API Error: ">>, <<"Response: ">>>>] }
    \cup
    { [data |-> d,
       out |-> <<PrintLine(<<"Fetching contributions for ">>),
                 PrintLine(<<"Sending GraphQL request to GitHub API...">>),
                 PrintLine(<<"Successfully fetched ">>)>>,
       err |-> <<>>] : d \in DisplayCalendars \ {NoneData} }

\* get_starred_count: the length of the list, 0 when the call fails
StarredCounts == {0, 5}

InitMain ==
    /\ pc = "main"
    /\ heatmap_requested \in BOOLEAN
    /\ tok = NoSetup
    /\ terminal_width \in TerminalWidths
    /\ color = ColorInit
    /\ user_data = PlainUser
    /\ starred_count = 0
    /\ pinned_repos = <<>>
    /\ contributions_data = NoneData
    /\ imgcat_path = "unset" /\ dsp = NoDisplay
    /\ stdout = <<>> /\ stderr = <<>> /\ exc = "none"
    /\ hm = NoFrame /\ hm_calls = 0
    /\ lines = <<>> /\ trimmed = <<>> /\ retrimmed = <<>>
    /\ info_width = 0 /\ info_result = [raised |-> "none", lines |-> <<>>]

\* lines 899-916: the profile, the starred count, and then the calendar
\* (with --heatmap) or the pinned repositories; display_side_by_side is
\* called with the one and without the other. A failed profile request
\* raises (raise_for_status).
MainFetch ==
    /\ pc = "main"
    /\ \/ /\ pc' = "raised"
          /\ exc' = "HTTPError"
          /\ UNCHANGED <<user_data, starred_count, pinned_repos, contributions_data,
                         stdout, stderr>>
       \/ /\ user_data' \in UserDataInputs
          /\ starred_count' \in StarredCounts
          /\ IF heatmap_requested
             THEN \E f \in FetchContributionsOutcomes :
                     /\ contributions_data' = f.data
                     /\ stdout' = stdout \o f.out
                     /\ stderr' = stderr \o f.err
                     /\ pinned_repos' = <<>>
             ELSE /\ pinned_repos' \in PinnedInputs
                  /\ contributions_data' = NoneData
                  /\ UNCHANGED <<stdout, stderr>>
          /\ pc' = "display"
          /\ UNCHANGED exc
    /\ UNCHANGED <<color, hm, hm_calls, lines, trimmed, retrimmed, terminal_width,
                   imgcat_path, dsp, info_width, info_result, heatmap_requested, tok>>

\* lines 917-921: an exception of the try block is reported and ends the
\* program with status 1
MainExcept ==
    /\ pc = "raised"
    /\ stderr' = Append(stderr, <<"Error: ", exc>>)
    /\ pc' = "exit1"
    /\ UNCHANGED <<color, contributions_data, hm, hm_calls, user_data, lines, trimmed,
                   retrimmed, starred_count, pinned_repos, terminal_width, imgcat_path,
                   dsp, stdout, exc, info_width, info_result, heatmap_requested, tok>>

NextMain == MainFetch \/ Next \/ MainExcept

SpecMain == InitMain /\ [][NextMain]_vars

(***************************************************************************)
(* SpecToken: the token file, the GITHUB_TOKEN environment variable and    *)
(* the interactive setup (lines 72-254), entered from main by '--config',  *)
(* by '--reset-token' or, for a profile lookup, by ensure_github_token.    *)
(* A token is a sequence of items whose first item is its prefix.          *)
(***************************************************************************)
\* the recursion depth of setup_github_token ('Try again?' answered yes)
MaxAttempts == 2

\* a token saved or exported before this run
OldToken == <<"ghp_", "o">>

\* what getpass can return: nothing, a blank, the two usual formats, another
TokenEntries == {<<>>, <<" ">>, <<"ghp_", "a">>, <<"github_pat_", "b">>, <<"x", "c">>}

\* the prompt that input writes, without a line end
Prompt(text) == [op |-> "prompt", n |-> 0, text |-> text]

\* what input can return
Answers == {<<>>, <<"y">>, <<"Y">>, <<"n">>}

\* str.lower on an answer
Lower(answer) ==
    [i \in 1..Len(answer) |->
        IF answer[i] = "Y" THEN "y" ELSE IF answer[i] = "N" THEN "n" ELSE answer[i]]

\* answer.startswith("y")
StartsWithY(answer) == answer # <<>> /\ answer[1] = "y"

\* line 167: token.startswith(("ghp_", "github_pat_"))
HasTokenPrefix(token) == token # <<>> /\ token[1] \in {"ghp_", "github_pat_"}

\* lines 74-85: the token of the file, None when there is no file
load_token(file) == file

\* lines 87-94: the file holds the token
save_token(token) == token

\* what the request of line 104 can do: status 0 stands for an exception
Responses ==
    {[status |-> 200, scopes |-> <<"read:user">>], [status |-> 200, scopes |-> <<"repo">>],
     [status |-> 200, scopes |-> <<>>], [status |-> 401, scopes |-> <<>>],
     [status |-> 403, scopes |-> <<>>], [status |-> 0, scopes |-> <<>>]}

\* lines 96-133: True for status 200 only; what it returns and what it prints
\* (a character outside ASCII is written as its name in parentheses)
validate_github_token(c, token, response) ==
    IF token = NoToken THEN [valid |-> FALSE, out |-> <<>>]
    ELSE IF response.status = 200 THEN
        [valid |-> TRUE,
         out |-> <<PrintLine(Color_color(c, "green", <<"(tick)">>)
                                \o <<" Token validated successfully!">>),
                   PrintLine(Color_color(c, "yellow", <<"Token scopes:">>) \o <<" ">>
                                \o Color_color(c, "reset",
                                       IF response.scopes = <<>> THEN <<"None">>
                                       ELSE response.scopes))>>
                 \o (IF \E i \in 1..Len(response.scopes) :
                            response.scopes[i] \in {"read:user", "user"}
                     THEN <<>>
                     ELSE <<PrintLine(Color_color(c, "yellow", <<"Warning:">>)
                              \o <<" Token may not have the required 'read:user' scope.">>),
                            PrintLine(Color_color(c, "yellow",
                              <<"Some features like contribution heatmaps may not work properly.">>))>>)
                 \o <<PrintLine(Color_color(c, "green", <<"Welcome,">>) \o <<" ">>
                                \o Color_color(c, "yellow", <<"a", "b">>) \o <<"!">>)>>]
    ELSE IF response.status = 401 THEN
        [valid |-> FALSE,
         out |-> <<PrintLine(Color_color(c, "red", <<"(cross)">>)
                                \o <<" Invalid token: Authentication failed.">>)>>]
    ELSE IF response.status = 0 THEN
        [valid |-> FALSE,
         out |-> <<PrintLine(Color_color(c, "red", <<"Error validating token: ">>))>>]
    ELSE
        [valid |-> FALSE,
         out |-> <<PrintLine(Color_color(c, "red", <<"(cross)">>)
                                \o <<" API request failed: ", response.status>>)>>]

\* lines 139-158: the banner, the instructions and the request for the token
SetupBanner(c) ==
    <<PrintLine(Color_color(c, "green", <<"(box top)">>)),
      PrintLine(Color_color(c, "green", <<"(box side)           GitHub Token Setup              (box side)">>)),
      PrintLine(Color_color(c, "green", <<"(box bottom)">>)),
      PrintLine(<<"\n">> \o Color_color(c, "yellow",
                    <<"GitHubFetch needs a GitHub personal access token to:">>)),
      PrintLine(<<"  (bullet) ">> \o Color_color(c, "reset", <<"View your pinned repositories">>)),
      PrintLine(<<"  (bullet) ">> \o Color_color(c, "reset", <<"Access contribution data for heatmaps">>)),
      PrintLine(<<"  (bullet) ">> \o Color_color(c, "reset", <<"Avoid GitHub API rate limits">>)),
      PrintLine(<<"  (bullet) ">> \o Color_color(c, "reset", <<"Access complete profile information">>)),
      PrintLine(<<"\n">> \o Color_color(c, "green", <<"How to create a token:">>)),
      PrintLine(<<"1. Visit ">>
                  \o create_hyperlink(<<"https://github.com/settings/tokens">>,
                        Color_color(c, "light_blue", <<"github.com/settings/tokens">>))),
      PrintLine(<<"2. Click \"">> \o Color_color(c, "yellow", <<"Generate new token">>)
                  \o <<"\" (arrow) \"">>
                  \o Color_color(c, "yellow", <<"Generate new token (classic)">>) \o <<"\"">>),
      PrintLine(<<"3. Enter a note like \"">> \o Color_color(c, "reset", <<"GitHubFetch">>)
                  \o <<"\"">>),
      PrintLine(<<"4. Select the \"">> \o Color_color(c, "yellow", <<"read:user">>)
                  \o <<"\" scope (under \"user\")">>),
      PrintLine(<<"   ">> \o Color_color(c, "yellow",
                    <<"(This scope is REQUIRED for heatmap and pinned repositories!)">>)),
      PrintLine(<<"5. Click \"">> \o Color_color(c, "green", <<"Generate token">>)
                  \o <<"\" at the bottom">>),
      PrintLine(<<"6. Copy the token and paste it below">>),
      PrintLine(<<"\n">> \o Color_color(c, "yellow", <<"Enter your GitHub token">>) \o <<" ">>
                  \o Color_color(c, "reset", <<"(input is hidden for security)">>)
                  \o Color_color(c, "yellow", <<":">>))>>

\* everything but the position, the token state and the terminal
token_unchanged ==
    UNCHANGED <<color, contributions_data, hm, hm_calls, user_data, lines, trimmed,
                retrimmed, starred_count, pinned_repos, terminal_width, imgcat_path,
                dsp, stderr, exc, info_width, info_result, heatmap_requested>>

\* the command line
TokenEntryPoints == {"config", "reset", "ensure"}

InitToken ==
    /\ pc = "token_entry"
    /\ tok \in {[NoSetup EXCEPT !.entry = e, !.file = f, !.env = v] :
                    e \in TokenEntryPoints, f \in {NoToken, OldToken},
                    v \in {NoToken, OldToken}}
    /\ color = ColorInit
    /\ contributions_data = NoneData
    /\ hm = NoFrame
    /\ hm_calls = 0
    /\ user_data = PlainUser
    /\ lines = <<>> /\ trimmed = <<>> /\ retrimmed = <<>>
    /\ DisplayIdle
    /\ info_width = 0
    /\ info_result = [raised |-> "none", lines |-> <<>>]
    /\ heatmap_requested = FALSE

\* lines 853-854: '--config' calls the setup directly
MainConfig ==
    /\ pc = "token_entry" /\ tok.entry = "config"
    /\ pc' = "setup"
    /\ UNCHANGED <<tok, stdout>>
    /\ token_unchanged

\* lines 195-213: the file is removed (an error of the removal is reported
\* and leaves it), the variable is cleared, and the setup is called
reset_github_token ==
    /\ pc = "token_entry" /\ tok.entry = "reset"
    /\ \E removed \in BOOLEAN :
          LET file_out == IF tok.file = NoToken THEN <<>>
                          ELSE IF removed
                          THEN <<PrintLine(Color_color(color, "green", <<"(tick)">>)
                                              \o <<" Previous token deleted.">>)>>
                          ELSE <<PrintLine(Color_color(color, "red",
                                              <<"Error deleting token: ">>))>>
              env_out == IF tok.env = NoToken THEN <<>>
                         ELSE <<PrintLine(Color_color(color, "green", <<"(tick)">>)
                                             \o <<" Token cleared from environment.">>)>>
          IN  /\ removed \/ tok.file # NoToken
              /\ tok' = [tok EXCEPT !.file = IF removed THEN NoToken ELSE tok.file,
                                    !.env = NoToken]
              /\ stdout' = stdout \o file_out \o env_out
    /\ pc' = "setup"
    /\ token_unchanged

\* lines 215-237: the variable, then the file (copied to the variable), then
\* the question whether to set a token up
ensure_github_token ==
    /\ pc = "token_entry" /\ tok.entry = "ensure"
    /\ IF tok.env # NoToken THEN
           /\ tok' = [tok EXCEPT !.returned = TRUE, !.result = tok.env]
           /\ pc' = "token_returned"
           /\ UNCHANGED stdout
       ELSE IF load_token(tok.file) # NoToken THEN
           /\ tok' = [tok EXCEPT !.env = load_token(tok.file), !.returned = TRUE,
                                 !.result = load_token(tok.file)]
           /\ pc' = "token_returned"
           /\ UNCHANGED stdout
       ELSE \E setup \in {Lower(a) : a \in Answers} :
           LET asked == <<PrintLine(Color_color(color, "yellow", <<"No GitHub token found.">>)),
                          PrintLine(<<"To access all features, including pinned repositories, a token is needed.">>),
                          Prompt(Color_color(color, "green",
                                    <<"Set up a GitHub token now? [Y/n]: ">>))>>
           IN  IF setup = <<>> \/ StartsWithY(setup) THEN
                   /\ pc' = "setup"
                   /\ stdout' = stdout \o asked
                   /\ UNCHANGED tok
               ELSE
                   /\ pc' = "token_returned"
                   /\ stdout' = stdout \o asked \o
                        <<PrintLine(Color_color(color, "yellow",
                            <<"Running with limited functionality (no pinned repos).">>))>>
                   /\ tok' = [tok EXCEPT !.returned = TRUE, !.result = NoToken]
    /\ token_unchanged

\* lines 139-167: the banner, the token typed at the prompt; a blank token
\* ends the setup, an unusual format is questioned
EnterToken ==
    /\ pc = "setup"
    /\ \E token \in TokenEntries :
          /\ IF Strip(token) = <<>> THEN
                 /\ stdout' = stdout \o SetupBanner(color) \o
                      <<PrintLine(Color_color(color, "red",
                          <<"No token provided. Some features may not work properly.">>))>>
                 /\ tok' = [tok EXCEPT !.token = token, !.attempts = @ + 1,
                                       !.returned = TRUE, !.result = NoToken]
                 /\ pc' = "token_returned"
             ELSE IF ~HasTokenPrefix(token) THEN
                 /\ stdout' = stdout \o SetupBanner(color) \o
                      <<PrintLine(Color_color(color, "yellow",
                          <<"Warning: Token format looks unusual. Tokens usually start with ghp_ or github_pat_.">>))>>
                 /\ tok' = [tok EXCEPT !.token = token, !.attempts = @ + 1]
                 /\ pc' = "confirm_format"
             ELSE
                 /\ stdout' = stdout \o SetupBanner(color)
                 /\ tok' = [tok EXCEPT !.token = token, !.attempts = @ + 1]
                 /\ pc' = "validate"
    /\ token_unchanged

\* lines 168-171: 'Continue anyway? [y/N]'
ConfirmFormat ==
    /\ pc = "confirm_format"
    /\ \E proceed \in {Lower(a) : a \in Answers} :
          LET asked == Prompt(Color_color(color, "green", <<"Continue anyway? [y/N]: ">>))
          IN  IF ~StartsWithY(proceed) THEN
                  /\ stdout' = stdout \o <<asked, PrintLine(Color_color(color, "red",
                         <<"Setup cancelled. Some features may not work properly.">>))>>
                  /\ tok' = [tok EXCEPT !.returned = TRUE, !.result = NoToken]
                  /\ pc' = "token_returned"
              ELSE
                  /\ stdout' = Append(stdout, asked)
                  /\ pc' = "validate"
                  /\ UNCHANGED tok
    /\ token_unchanged

\* lines 174-186: the variable is assigned, then the token is validated; a
\* valid token is saved and returned, an invalid one leads to 'Try again?'
ValidateToken ==
    /\ pc = "validate"
    /\ \E response \in Responses :
          \E v \in {validate_github_token(color, tok.token, response)} :
              LET validating == <<PrintLine(Color_color(color, "yellow",
                                                <<"Validating token...">>))>>
              IN  IF v.valid THEN
                      /\ tok' = [tok EXCEPT !.env = tok.token,
                                            !.file = save_token(tok.token),
                                            !.passed = @ \cup {tok.token},
                                            !.failed = @ \ {tok.token},
                                            !.returned = TRUE, !.result = tok.token]
                      /\ stdout' = stdout \o validating \o v.out \o
                           <<PrintLine(Color_color(color, "green", <<"(tick)">>)
                                          \o <<" Token saved successfully!">>)>>
                      /\ pc' = "token_returned"
                  ELSE
                      /\ tok' = [tok EXCEPT !.env = tok.token,
                                            !.failed = @ \cup {tok.token}]
                      /\ stdout' = stdout \o validating \o v.out \o
                           <<PrintLine(Color_color(color, "red",
                                          <<"Token validation failed.">>)),
                             PrintLine(Color_color(color, "yellow",
                                          <<"Please check your token and try again.">>))>>
                      /\ pc' = "try_again"
    /\ token_unchanged

\* lines 187-193: 'Try again? [Y/n]': the setup calls itself, or returns None
TryAgain ==
    /\ pc = "try_again"
    /\ \E retry \in {Lower(a) : a \in Answers} :
          LET asked == Prompt(Color_color(color, "green", <<"Try again? [Y/n]: ">>))
          IN  IF retry = <<>> \/ StartsWithY(retry) THEN
                  /\ tok.attempts < MaxAttempts
                  /\ stdout' = stdout \o <<asked, PrintLine(<<"\n">>)>>
                  /\ pc' = "setup"
                  /\ UNCHANGED tok
              ELSE
                  /\ tok' = [tok EXCEPT !.returned = TRUE, !.result = NoToken]
                  /\ pc' = "token_returned"
                  /\ stdout' = Append(stdout, asked)
    /\ token_unchanged

\* lines 855 and 858: after '--config' and '--reset-token' the program ends
ExitAfterSetup ==
    /\ pc = "token_returned" /\ tok.entry \in {"config", "reset"}
    /\ pc' = "exit0"
    /\ UNCHANGED <<tok, stdout>>
    /\ token_unchanged

\* lines 241-254, called first at line 259: the variable, else the file
\* (copied to the variable); the token of the Authorization header
get_headers ==
    /\ pc = "token_returned" /\ tok.entry = "ensure"
    /\ \E token \in {IF tok.env # NoToken THEN tok.env ELSE load_token(tok.file)} :
          tok' = [tok EXCEPT !.env = IF token # NoToken THEN token ELSE @,
                             !.sent = token]
    /\ pc' = "headers_built"
    /\ UNCHANGED stdout
    /\ token_unchanged

NextToken ==
    \/ MainConfig
    \/ reset_github_token
    \/ ensure_github_token
    \/ EnterToken
    \/ ConfirmFormat
    \/ ValidateToken
    \/ TryAgain
    \/ ExitAfterSetup
    \/ get_headers

SpecToken == InitToken /\ [][NextToken]_vars

(***************************************************************************)
(* Properties of the heatmap renderer (checked under SpecHeatmap).         *)
(***************************************************************************)
Range(s) == {s[i] : i \in 1..Len(s)}

Returned == hm_calls > 0

\* the days of the argument, as (week, index) positions
DayPositions ==
    {<<k, i>> : k \in 1..Len(contributions_data.weeks), i \in 1..7} \cap
    {p \in (1..Len(contributions_data.weeks)) \X (1..7) :
        p[2] <= Len(contributions_data.weeks[p[1]].contributionDays)}

DayAt(p) == contributions_data.weeks[p[1]].contributionDays[p[2]]

\* the largest day count of the calendar
MaxCountOfCalendar ==
    CHOOSE m \in {DayAt(p).contributionCount : p \in DayPositions} :
        \A p \in DayPositions : DayAt(p).contributionCount <= m

\* the level the thresholds assign to a count
LevelOf(count, maxCount) ==
    LET q1 == IF maxCount \div 4 > 1 THEN maxCount \div 4 ELSE 1
        q2 == IF maxCount \div 2 > 2 THEN maxCount \div 2 ELSE 2
        q3 == IF (3 * maxCount) \div 4 > 3 THEN (3 * maxCount) \div 4 ELSE 3
    IN  IF count = 0 THEN 0
        ELSE IF count <= q1 THEN 1
        ELSE IF count <= q2 THEN 2
        ELSE IF count <= q3 THEN 3
        ELSE 4

\* the row (Sunday = 1) a dated day is shown in
RowOf(day) == ((Weekday(day.date) + 1) % 7) + 1

\* C1: every day present in the grid is drawn with the block of the level
\* 0 if count = 0, 1 if count <= q1, 2 if count <= q2, 3 if count <= q3, else 4,
\* with q1 = max(1, maxCount div 4), q2 = max(2, maxCount div 2),
\* q3 = max(3, 3*maxCount div 4); the five blocks are pairwise distinct, so a
\* day with count q1 is shown at level 1 and not at level 2.
C1_IntensityLevels ==
    (Returned /\ hm.exit = "grid") =>
        /\ \A a, b \in 1..5 :
              a # b => hm.contribution_blocks[a] # hm.contribution_blocks[b]
        /\ \A p \in DayPositions :
              DayAt(p).date.valid =>
                 hm.horizontal_data[RowOf(DayAt(p))][p[1]] =
                    hm.contribution_blocks[
                        LevelOf(DayAt(p).contributionCount, MaxCountOfCalendar) + 1]

\* a grid with q1 >= 2 holding a day whose count is exactly q1, drawn at level 1
C1_Witness ==
    /\ Returned /\ hm.exit = "grid" /\ hm.q1 >= 2
    /\ \E p \in DayPositions :
          /\ DayAt(p).date.valid
          /\ DayAt(p).contributionCount = hm.q1
          /\ hm.horizontal_data[RowOf(DayAt(p))][p[1]] = hm.contribution_blocks[2]

ZeroTotal == ~contributions_data.isNone /\ contributions_data.totalContributions = 0

\* C4 as stated: one line for an absent calendar, one line for a calendar with
\* zero total contributions, the two texts different.
C4_OneLineEach ==
    Returned =>
        /\ contributions_data.isNone => Len(hm.lines) = 1
        /\ ZeroTotal => Len(hm.lines) = 1
        /\ (contributions_data.isNone \/ ZeroTotal) =>
              ("No contribution data available." \in Range(hm.lines[1]))
                  # ("No contributions found for user '" \in Range(hm.lines[1]))

\* C4 amended: five lines for an absent calendar (the error line and four
\* lines of advice), one line for a calendar with zero total contributions;
\* the error line and the no-contributions line are different texts.
C4_AbsentFiveEmptyOne ==
    Returned =>
        /\ contributions_data.isNone =>
              /\ Len(hm.lines) = 5
              /\ "No contribution data available." \in Range(hm.lines[1])
              /\ \A i \in 1..5 :
                    "No contributions found for user '" \notin Range(hm.lines[i])
        /\ ZeroTotal =>
              /\ Len(hm.lines) = 1
              /\ "No contributions found for user '" \in Range(hm.lines[1])
              /\ "No contribution data available." \notin Range(hm.lines[1])

\* the renderer has returned for an absent calendar
C4_Witness == Returned /\ contributions_data.isNone /\ hm.exit = "absent"

\* C5: a present calendar with total 0 and every day count 0 yields the single
\* empty-state line: no header, no month row, no weekday rows, no legend,
\* whatever the number of weeks.
C5_EmptyStateOnly ==
    (Returned /\ ZeroTotal /\ \A p \in DayPositions : DayAt(p).contributionCount = 0) =>
        /\ Len(hm.lines) = 1
        /\ "No contributions found for user '" \in Range(hm.lines[1])
        /\ \A i \in 1..Len(hm.lines) :
              /\ "Contributions:" \notin Range(hm.lines[i])
              /\ Range(hm.lines[i]) \cap {".", "o", "#", "L"} = {}
        /\ hm.horizontal_data = <<>>
        /\ hm.month_labels = <<>>

\* such a calendar of several weeks of zero days, rendered
C5_Witness ==
    /\ Returned /\ ZeroTotal
    /\ Len(contributions_data.weeks) >= 3
    /\ DayPositions # {}
    /\ \A p \in DayPositions : DayAt(p).contributionCount = 0
    /\ Len(hm.lines) = 1

\* 0-based terminal column of item idx of a line (escape codes take none)
Column(line, idx) == Cardinality({j \in 1..(idx - 1) : line[j] \notin EscapeCodes})

\* index of the first letter of the i-th month label of the month row
LabelStart(line, i) ==
    LET starts == {j + 1 : j \in {q \in 1..Len(line) : line[q] = ColorInit.light_blue}}
    IN  CHOOSE j \in starts : Cardinality({q \in starts : q < j}) = i - 1

\* index, in a weekday row, of the first item of the cell of week k (1-based)
RECURSIVE CellStart(_, _)
CellStart(cells, k) ==
    IF k = 1 THEN 5 ELSE CellStart(cells, k - 1) + Len(cells[k - 1]) + 1

\* a week is tracked when its first day carries a date
Tracked(k) ==
    /\ contributions_data.weeks[k].contributionDays # <<>>
    /\ contributions_data.weeks[k].contributionDays[1].date.valid

MonthOfWeek(k) == contributions_data.weeks[k].contributionDays[1].date.month

\* the weeks (1-based) whose month differs from that of the previously tracked week
LabelledWeeks ==
    {k \in 1..Len(contributions_data.weeks) :
        /\ Tracked(k)
        /\ \A j \in 1..(k - 1) :
              (Tracked(j) /\ \A m \in (j + 1)..(k - 1) : ~Tracked(m))
                  => MonthOfWeek(j) # MonthOfWeek(k)}

\* the first half of C10: a label is recorded for exactly the weeks whose month
\* differs from that of the previously tracked week, with that month's name
MonthLabelsRecorded ==
    (Returned /\ hm.exit = "grid") =>
        /\ {hm.month_labels[i][1] + 1 : i \in 1..Len(hm.month_labels)} = LabelledWeeks
        /\ \A i \in 1..Len(hm.month_labels) :
              /\ hm.month_labels[i][2] = month_abbr[MonthOfWeek(hm.month_labels[i][1] + 1)]
              /\ \A j \in 1..(i - 1) : hm.month_labels[j][1] < hm.month_labels[i][1]

\* C10: a 3-letter month label is recorded for week k exactly when the month of
\* its first tracked day differs from that of the previously tracked week, and
\* each label starts at the terminal column of its week's grid cell (2 columns
\* per week): with week 0 in January and week 4 in February, "Jan" stands over
\* week 0 and "Feb" over week 4.
C10_MonthLabelsOverTheirWeeks ==
    (Returned /\ hm.exit = "grid" /\ hm.month_labels # <<>>) =>
        /\ MonthLabelsRecorded
        /\ \A i \in 1..Len(hm.month_labels) :
              LET header == hm.lines[2]
                  row == hm.lines[3]
                  week == hm.month_labels[i][1] + 1
              IN  Column(header, LabelStart(header, i))
                     = Column(row, CellStart(hm.horizontal_data[1], week))


(***************************************************************************)
(* SpecTrim: the trim applied to every short sequence of sample lines, and *)
(* then to its own result.                                                 *)
(***************************************************************************)
\* "", " ", " \t", "a", " a ", the empty text in colour, a space in colour
LineSamples ==
    { <<>>, <<" ">>, <<" ", "\t">>, <<"a">>, <<" ", "a", " ">>,
      Color_color(ColorInit, "reset", <<>>), Color_color(ColorInit, "green", <<" ">>) }

RECURSIVE SeqsUpTo(_, _)
SeqsUpTo(S, n) ==
    IF n = 0 THEN {<<>>}
    ELSE LET shorter == SeqsUpTo(S, n - 1)
         IN  shorter \cup {Append(q, x) : q \in shorter, x \in S}

InitTrim ==
    /\ pc = "trim"
    /\ lines \in SeqsUpTo(LineSamples, MaxLines)
    /\ trimmed = <<>> /\ retrimmed = <<>>
    /\ color = ColorInit
    /\ contributions_data = NoneData
    /\ hm = NoFrame
    /\ hm_calls = 0
    /\ user_data = PlainUser
    /\ DisplayIdle
    /\ OuterIdle

Trim ==
    /\ pc = "trim"
    /\ trimmed' = trim_trailing_empty_lines(lines)
    /\ pc' = "trimmed"
    /\ UNCHANGED <<color, contributions_data, hm, hm_calls, user_data, lines, retrimmed>>
    /\ UNCHANGED display_vars
    /\ UNCHANGED outer_vars

TrimAgain ==
    /\ pc = "trimmed"
    /\ retrimmed' = trim_trailing_empty_lines(trimmed)
    /\ pc' = "retrimmed"
    /\ UNCHANGED <<color, contributions_data, hm, hm_calls, user_data, lines, trimmed>>
    /\ UNCHANGED display_vars
    /\ UNCHANGED outer_vars

NextTrim == Trim \/ TrimAgain

SpecTrim == InitTrim /\ [][NextTrim]_vars

(***************************************************************************)
(* Properties of the trim (checked under SpecTrim).                        *)
(***************************************************************************)
WhitespaceOnly(line) == \A i \in 1..Len(line) : line[i] \in {" ", "\t"}

\* nothing is left of the line once escape codes and whitespace are removed
BlankIgnoringFormatting(line) ==
    \A i \in 1..Len(line) : line[i] \in {" ", "\t"} \cup EscapeCodes

\* C6: the trim is idempotent, trim(trim(L)) = trim(L), and a sequence whose
\* lines are all blank is trimmed to the empty sequence.
C6_TrimIdempotent ==
    /\ pc = "retrimmed" => retrimmed = trimmed
    /\ (pc \in {"trimmed", "retrimmed"} /\ \A i \in 1..Len(lines) : WhitespaceOnly(lines[i]))
          => trimmed = <<>>

\* two or more blank lines after a line of text were trimmed, and trimmed again
C6_Witness ==
    /\ pc = "retrimmed"
    /\ Len(lines) >= 3 /\ Len(trimmed) = 1
    /\ retrimmed = trimmed

\* the longest prefix of ls whose last line is not blank
LongestPrefix(ls, Blank(_)) ==
    LET ends == {i \in 1..Len(ls) : ~Blank(ls[i])}
    IN  IF ends = {} THEN <<>>
        ELSE SubSeq(ls, 1, CHOOSE i \in ends : \A j \in ends : j <= i)

\* C7 as stated: the result is the longest prefix whose last line is non-blank,
\* a line being blank when nothing is left of it after removing colour and
\* escape sequences and whitespace.
C7_BlankAfterRemovingFormatting ==
    pc \in {"trimmed", "retrimmed"} =>
        trimmed = LongestPrefix(lines, BlankIgnoringFormatting)

\* C7 amended: the result is the longest prefix whose last line is non-blank,
\* a line being blank when it holds nothing but whitespace (an escape sequence
\* counts as content); interior blank lines are kept, and an input that is
\* empty or ends in a non-blank line is returned unchanged.
C7_BlankIsWhitespaceOnly ==
    pc \in {"trimmed", "retrimmed"} =>
        /\ trimmed = LongestPrefix(lines, WhitespaceOnly)
        /\ (lines = <<>> \/ ~WhitespaceOnly(lines[Len(lines)])) => trimmed = lines

\* an interior blank line kept, a trailing blank line removed, and a trailing
\* line of escape codes alone kept
C7_Witness ==
    /\ pc = "trimmed"
    /\ Len(lines) = 3 /\ Len(trimmed) = 2
    /\ WhitespaceOnly(lines[1]) /\ WhitespaceOnly(lines[3])
    /\ lines[2] # <<>> /\ BlankIgnoringFormatting(lines[2])


(***************************************************************************)
(* Properties of display_side_by_side, under Spec.                         *)
(***************************************************************************)
\* display_side_by_side has its lines: it is about to print them beside the
\* image, or it has printed them
HasDisplayLines == pc = "print_beside_image" \/ pc = "done"

\* the image has been opened and the geometry computed
GeometryComputed == dsp.height_px > 0

\* the width each formatter was called with in the image branch
ImageBranchWidths ==
    (HasDisplayLines /\ dsp.branch = "image") =>
        /\ dsp.text_width = terminal_width - dsp.text_start_column
        /\ dsp.show_heatmap => dsp.heatmap_text_width = terminal_width - dsp.text_start_column

\* C2, as stated: imageWidthCells is 15 * (w/h) * 2.0 rounded to the nearest
\* integer, textStartColumn is imageWidthCells + 6, both formatters get
\* terminalWidthColumns - textStartColumn, and a square image gives 30 and 36.
C2_WidthRoundedToNearest ==
    /\ GeometryComputed =>
          /\ 2 * dsp.image_width_cells * dsp.height_px - dsp.height_px
                 <= 2 * 30 * dsp.width_px
          /\ 2 * 30 * dsp.width_px
                 <= 2 * dsp.image_width_cells * dsp.height_px + dsp.height_px
          /\ dsp.text_start_column = dsp.image_width_cells + 6
          /\ dsp.width_px = dsp.height_px =>
                 dsp.image_width_cells = 30 /\ dsp.text_start_column = 36
    /\ ImageBranchWidths

\* C2, corrected: imageWidthCells is 15 * (w/h) * 2.0 truncated to an integer
\* (the largest integer not above it, never rounded up), textStartColumn is
\* imageWidthCells + 6, both formatters get terminalWidthColumns -
\* textStartColumn, and a square image gives 30 and 36.
C2_WidthTruncated ==
    /\ GeometryComputed =>
          /\ dsp.image_width_cells * dsp.height_px <= 30 * dsp.width_px
          /\ 30 * dsp.width_px < (dsp.image_width_cells + 1) * dsp.height_px
          /\ dsp.text_start_column = dsp.image_width_cells + 6
          /\ dsp.available_text_width = terminal_width - dsp.text_start_column
          /\ dsp.width_px = dsp.height_px =>
                 dsp.image_width_cells = 30 /\ dsp.text_start_column = 36
    /\ ImageBranchWidths

\* a 3 x 7 image (12.857... cells) was displayed with text and heatmap beside it
C2_Witness ==
    /\ pc = "done" /\ dsp.branch = "image" /\ dsp.show_heatmap
    /\ dsp.width_px = 3 /\ dsp.height_px = 7
    /\ dsp.image_width_cells = 12 /\ dsp.text_start_column = 18
    /\ dsp.text_width = terminal_width - 18
    /\ dsp.heatmap_text_width = terminal_width - 18

\* the failures of retrieval, decoding and painting
ImageFailures == {"fetch", "decode", "paint"}
ImageFailureKinds == {"RequestException", "UnidentifiedImageError", "CalledProcessError"}

\* the lines print() received, in order
PrintedLines == SelectSeq(stdout, LAMBDA e : e.op = "print")

\* lines 785-788 as a sequence of printed lines
TextBlock(display_lines) ==
    <<PrintLine(<<>>)>>
       \o [i \in 1..Len(display_lines) |-> PrintLine(<<" ", " ">> \o display_lines[i])]
       \o <<PrintLine(<<>>)>>

\* C3: with the paint capability available, a failure of avatar retrieval,
\* image decoding or the paint invocation is caught in the image branch (it
\* is reported on the error stream), execution continues in the text-only
\* branch, whose completion has printed the text block and nothing else, and
\* no such failure is the exception that leaves display_side_by_side.
C3_ImageFailuresFallThrough ==
    /\ dsp.failure \in ImageFailures =>
          /\ imgcat_path # "False"
          /\ pc \in {"fallback", "done", "raised"}
          /\ stderr # <<>>
          /\ stderr[Len(stderr)][1] = "Error displaying avatar: "
          /\ stderr[Len(stderr)][2] \in ImageFailureKinds
          /\ pc = "done" =>
                /\ dsp.branch = "text"
                /\ stdout = TextBlock(dsp.display_lines)
    /\ pc = "raised" => exc \in {"ValueError", "IndexError"}

\* the paint invocation failed in all its attempts and the text-only branch
\* printed the profile
C3_Witness ==
    /\ pc = "done" /\ dsp.failure = "paint" /\ dsp.branch = "text"
    /\ imgcat_path = "True"
    /\ Len(stdout) > 2

\* C8: when a heatmap block is rendered, in either branch, the displayed
\* lines are the profile lines without their trailing blank lines followed
\* directly by the heatmap lines, the line before the first heatmap line is
\* not blank, and the lines are printed in that order.
C8_NoBlankAtSeam ==
    (HasDisplayLines /\ dsp.show_heatmap) =>
        LET kept == LongestPrefix(dsp.user_info_lines, WhitespaceOnly)
        IN  /\ dsp.heatmap_lines # <<>>
            /\ dsp.display_lines = kept \o dsp.heatmap_lines
            /\ kept # <<>> => ~WhitespaceOnly(dsp.display_lines[Len(kept)])
            /\ (pc = "done" /\ dsp.branch = "image") =>
                   PrintedLines = [i \in 1..Len(dsp.display_lines) |->
                                      PrintLine(dsp.display_lines[i])] \o <<PrintLine(<<>>)>>
            /\ (pc = "done" /\ dsp.branch = "text") =>
                   PrintedLines = TextBlock(dsp.display_lines)

\* a grid heatmap was printed under the profile lines, beside the image
C8_Witness ==
    /\ pc = "done" /\ dsp.branch = "image" /\ dsp.show_heatmap
    /\ hm.exit = "grid"
    /\ Len(dsp.user_info_lines) > 2
    /\ Len(dsp.display_lines) = Len(dsp.user_info_lines) + Len(dsp.heatmap_lines)

\* the line sequence has the heading of the pinned repositories
HasPinnedSection(ls) ==
    \E i \in 1..Len(ls) : \E j \in 1..Len(ls[i]) : ls[i][j] = "Pinned Repositories:"

\* both a non-empty repository list and a calendar were given
BothGiven == pinned_repos # <<>> /\ ~contributions_data.isNone

\* C9, as stated: given both a non-empty pinned repository list and a
\* calendar, the displayed lines have the "Pinned Repositories:" section,
\* followed directly by the heatmap block.
C9_PinnedSectionWithHeatmap ==
    (HasDisplayLines /\ BothGiven) =>
        /\ HasPinnedSection(dsp.display_lines)
        /\ dsp.display_lines =
              LongestPrefix(dsp.user_info_lines, WhitespaceOnly) \o dsp.heatmap_lines

\* C9, corrected: given both a non-empty pinned repository list and a
\* calendar, the repository list is not handed to the formatter: the
\* displayed lines are the profile fields without any "Pinned Repositories:"
\* section, followed directly by the heatmap block; the section is displayed
\* only when no calendar is given.
C9_PinnedSectionOnlyWithoutHeatmap ==
    /\ (HasDisplayLines /\ BothGiven) =>
          /\ dsp.repos_shown = <<>>
          /\ ~HasPinnedSection(dsp.display_lines)
          /\ dsp.user_info_lines =
                get_user_info_lines(ColorInit, user_data, starred_count, <<>>,
                                    dsp.text_width).lines
          /\ dsp.display_lines =
                LongestPrefix(dsp.user_info_lines, WhitespaceOnly) \o dsp.heatmap_lines
    /\ (HasDisplayLines /\ pinned_repos # <<>> /\ contributions_data.isNone) =>
          /\ dsp.repos_shown = pinned_repos
          /\ HasPinnedSection(dsp.display_lines)

\* both were given and the display finished with the heatmap's lines
C9_Witness ==
    /\ pc = "done" /\ BothGiven
    /\ dsp.heatmap_lines # <<>>
    /\ Len(dsp.display_lines) > Len(dsp.heatmap_lines)

(***************************************************************************)
(* The grid of the heatmap renderer (checked under SpecHeatmap).           *)
(***************************************************************************)
\* the line of the weekday row d (Sunday = 1): the seven lines before the legend
WeekdayRow(d) == hm.lines[Len(hm.lines) - 8 + d]

\* the days of week k that fall on weekday row d
DaysOn(k, d) ==
    {p \in DayPositions : p[1] = k /\ DayAt(p).date.valid /\ RowOf(DayAt(p)) = d}

\* the cell the grid owes to weekday row d of week k
CellOwed(k, d) ==
    IF DaysOn(k, d) = {} THEN <<" ">>
    ELSE hm.contribution_blocks[
            LevelOf(DayAt(CHOOSE p \in DaysOn(k, d) : TRUE).contributionCount,
                    MaxCountOfCalendar) + 1]

\* C11: a grid for a calendar of W weeks has exactly 7 weekday rows, Sunday
\* first and Saturday last; each row holds exactly W cells in week order,
\* separated by single spaces; the cell of weekday d of week k is the
\* intensity block of the day of week k falling on d, and a blank when week
\* k has no such day, never the zero-intensity block.
C11_SevenRowsOfWeekCells ==
    (Returned /\ hm.exit = "grid") =>
        LET W == Len(contributions_data.weeks)
            letters == <<"S", "M", "T", "W", "T", "F", "S">>
        IN  /\ Len(hm.lines) = 9 + (IF hm.month_labels # <<>> THEN 1 ELSE 0)
            /\ Cardinality({i \in 1..Len(hm.lines) :
                                /\ Len(hm.lines[i]) >= 4
                                /\ hm.lines[i][1] = ColorInit.yellow
                                /\ hm.lines[i][2] \in Range(letters)
                                /\ hm.lines[i][4] = " "}) = 7
            /\ \A d \in 1..7 :
                  LET row == WeekdayRow(d)
                      cells == [k \in 1..W |-> CellOwed(k, d)]
                  IN  /\ SubSeq(row, 1, 4) = <<ColorInit.yellow, letters[d], ColorInit.reset, " ">>
                      /\ Len(hm.horizontal_data[d]) = W
                      /\ Len(row) = 4 + SeqSum([k \in 1..W |-> Len(cells[k])]) + (W - 1)
                      /\ \A k \in 1..W :
                            /\ SubSeq(row, CellStart(cells, k),
                                      CellStart(cells, k) + Len(cells[k]) - 1) = cells[k]
                            /\ k < W => row[CellStart(cells, k) + Len(cells[k])] = " "
                            /\ DaysOn(k, d) = {} =>
                                  /\ cells[k] # hm.contribution_blocks[1]
                                  /\ "." \notin Range(cells[k])

\* a grid of several weeks whose first week is partial: a weekday without a
\* day is blank while a day with count zero has the zero-intensity block
C11_Witness ==
    /\ Returned /\ hm.exit = "grid"
    /\ Len(contributions_data.weeks) >= 3
    /\ \E d \in 1..7 : DaysOn(1, d) = {} /\ hm.horizontal_data[d][1] = <<" ">>
    /\ \E p \in DayPositions :
          /\ DayAt(p).date.valid /\ DayAt(p).contributionCount = 0
          /\ hm.horizontal_data[RowOf(DayAt(p))][p[1]] = hm.contribution_blocks[1]

(***************************************************************************)
(* Properties of get_user_info_lines (checked under SpecInfo).             *)
(***************************************************************************)
\* the calls of textwrap.wrap that a normal return has made: the text and
\* the width of each
WrapCalls ==
    (IF user_data.blog # <<>> /\ user_data.blog # NA
     THEN {[text |-> user_data.blog, width |-> info_width]} ELSE {})
    \cup (IF user_data.bio # <<>> /\ user_data.bio # NA
          THEN {[text |-> user_data.bio, width |-> info_width]} ELSE {})
    \cup {[text |-> pinned_repos[i].description, width |-> info_width - 3] :
             i \in {j \in 1..Len(pinned_repos) : pinned_repos[j].description # <<>>}}

\* the maximal runs of non-whitespace characters of a text
Tokens(text) ==
    {SubSeq(text, a, b) : a \in 1..Len(text), b \in 1..Len(text)} \cap
    {SubSeq(text, sp[1], sp[2]) :
        sp \in {q \in (1..Len(text)) \X (1..Len(text)) :
                  /\ q[1] <= q[2]
                  /\ \A j \in q[1]..q[2] : text[j] \notin Whitespace
                  /\ q[1] = 1 \/ text[q[1] - 1] \in Whitespace
                  /\ q[2] = Len(text) \/ text[q[2] + 1] \in Whitespace}}

\* a text without its whitespace
Solid(text) == SelectSeq(text, LAMBDA x : x \notin Whitespace)

\* seg stands in the line as a run of consecutive items
Occurs(seg, line) ==
    \E a \in 1..(Len(line) - Len(seg) + 1) : SubSeq(line, a, a + Len(seg) - 1) = seg

\* C12, as stated: no wrapped segment of the Website, Bio and description
\* values is longer than the wrap width, except that a token longer than the
\* width passes through unsplit as one segment.
C12_LongTokenUnsplit ==
    pc = "info_returned" =>
        \A call \in WrapCalls :
            LET segs == Wrap(call.text, call.width)
            IN  /\ \A i \in 1..Len(segs) :
                      Len(segs[i]) <= call.width \/ segs[i] \in Tokens(call.text)
                /\ \A t \in Tokens(call.text) :
                      Len(t) > call.width => t \in Range(segs)

\* C12, corrected: every wrapped segment of the Website, Bio and description
\* values has at most the wrap width characters, without exception: a token
\* longer than the width is split into pieces of at most the width; no
\* character other than whitespace is lost, and every segment stands in a
\* returned line.
C12_SegmentsWithinWidth ==
    pc = "info_returned" =>
        \A call \in WrapCalls :
            LET segs == Wrap(call.text, call.width)
            IN  /\ call.width >= 1
                /\ \A i \in 1..Len(segs) :
                      /\ 1 <= Len(segs[i]) /\ Len(segs[i]) <= call.width
                      /\ \E j \in 1..Len(info_result.lines) :
                            Occurs(segs[i], info_result.lines[j])
                /\ Solid(Concat(segs)) = Solid(call.text)
                /\ \A t \in Tokens(call.text) :
                      Len(t) > call.width => t \notin Range(segs)

\* a bio whose first word has 10 letters was wrapped at width 4 into more
\* segments than it has words
C12_Witness ==
    /\ pc = "info_returned" /\ info_width = 4
    /\ \E t \in Tokens(user_data.bio) : Len(t) = 10
    /\ Len(Wrap(user_data.bio, info_width)) > Cardinality(Tokens(user_data.bio))
    /\ Len(info_result.lines) > 9

(***************************************************************************)
(* The renderer and the shared colour helper (checked under SpecHeatmap).  *)
(***************************************************************************)
\* C13: the renderer is pure and deterministic: a call leaves the shared
\* colour helper unchanged, and a later call with the same username and
\* calendar returns the same lines as the call before it.
C13_PureAndDeterministic ==
    [][(pc = "heatmap" /\ hm_calls' = hm_calls + 1) =>
          /\ color' = color
          /\ hm_calls >= 1 => hm'.lines = hm.lines]_vars

(***************************************************************************)
(* What the image branch writes after the paint (checked under Spec).      *)
(***************************************************************************)
\* the image branch has written its text and returned
BesideImageDone == pc = "done" /\ dsp.branch = "image"

\* the events written with this operation
EventsOf(op) == {i \in 1..Len(stdout) : stdout[i].op = op}

\* the column a print starts at: the rightward moves written since the
\* last line was printed (a printed line returns the cursor to column 0)
RECURSIVE ColumnBefore(_)
ColumnBefore(i) ==
    IF i = 1 \/ stdout[i - 1].op \in {"print", "image"} THEN 0
    ELSE (IF stdout[i - 1].op = "right" THEN stdout[i - 1].n ELSE 0) + ColumnBefore(i - 1)

\* C14: after a successful paint the image branch writes one cursor-up by 15
\* rows, then for its n >= 1 lines: each line is immediately preceded by
\* exactly one rightward move of textStartColumn columns, so there are n
\* rightward moves, every line starts at column textStartColumn, and no
\* rightward move follows the last line.
C14_RightMoveBeforeEachLine ==
    BesideImageDone =>
        LET n == Len(dsp.display_lines)
        IN  /\ n >= 1
            /\ EventsOf("image") = {1}
            /\ EventsOf("up") = {2} /\ stdout[2] = CursorUp(15)
            /\ \A i \in 1..n :
                  /\ stdout[1 + 2 * i] = CursorRight(dsp.text_start_column)
                  /\ stdout[2 + 2 * i] = PrintLine(dsp.display_lines[i])
                  /\ ColumnBefore(2 + 2 * i) = dsp.text_start_column
            /\ Cardinality(EventsOf("right")) = n
            /\ \A i \in EventsOf("right") : i < 2 + 2 * n
            /\ Len(stdout) > 2 + 2 * n

\* the text and a grid heatmap, 19 lines, were written beside a painted image
C14_Witness ==
    /\ BesideImageDone /\ dsp.show_heatmap /\ hm.exit = "grid"
    /\ Len(dsp.display_lines) >= 15
    /\ Cardinality(EventsOf("right")) = Len(dsp.display_lines)
    /\ stdout[Len(stdout) - 1].op = "print"

\* the rows the cursor has gone down by the events i..Len(stdout)
RECURSIVE RowsDownFrom(_)
RowsDownFrom(i) ==
    IF i > Len(stdout) THEN 0
    ELSE (CASE stdout[i].op = "up" -> 0 - stdout[i].n
            [] stdout[i].op = "down" -> stdout[i].n
            [] stdout[i].op = "print" -> 1
            [] OTHER -> 0) + RowsDownFrom(i + 1)

\* C15: after the n lines the image branch moves the cursor down by exactly
\* 15 - n rows when n < 15 and not at all otherwise, then ends the line; at
\* return the cursor is under the rows of the image (the paint left it on the
\* first row under the image, and it ends at least one row further down; for
\* an image of 15 rows that is row max(15, n) + 1 counted from the image's
\* first row), so later output does not overlap the image.
C15_CursorEndsUnderImage ==
    BesideImageDone =>
        LET n == Len(dsp.display_lines)
        IN  /\ n < 15 =>
                  /\ Len(stdout) = 4 + 2 * n
                  /\ stdout[3 + 2 * n] = CursorDown(15 - n)
                  /\ stdout[4 + 2 * n] = PrintLine(<<>>)
            /\ n >= 15 =>
                  /\ Len(stdout) = 3 + 2 * n
                  /\ EventsOf("down") = {}
                  /\ stdout[3 + 2 * n] = PrintLine(<<>>)
            /\ RowsDownFrom(2) = (IF n > 15 THEN n ELSE 15) - 15 + 1
            /\ RowsDownFrom(2) >= 1
            /\ stdout[1].n = 15 => 15 + RowsDownFrom(2) >= (IF n > 15 THEN n ELSE 15)

\* nine profile lines were written beside the image and the cursor moved down 6
C15_Witness ==
    /\ BesideImageDone /\ Len(dsp.display_lines) = 9
    /\ stdout[Len(stdout) - 1] = CursorDown(6)
    /\ stdout[1] = PaintedImage(15)

(***************************************************************************)
(* What the text-only branch writes (checked under Spec).                  *)
(***************************************************************************)
\* the text-only branch has written its block and returned
TextOnlyDone == pc = "done" /\ dsp.branch = "text"

\* C16: in the text-only branch the text formatter and the heatmap formatter
\* are called with width terminalWidthColumns - 10, and the branch prints
\* exactly one blank line, then every display line in order behind a margin
\* of 2 columns, then exactly one blank line, without any cursor move.
C16_TextOnlyBlock ==
    TextOnlyDone =>
        LET n == Len(dsp.display_lines)
            printed == PrintedLines
        IN  /\ dsp.text_width = terminal_width - 10
            /\ dsp.show_heatmap => dsp.heatmap_text_width = terminal_width - 10
            /\ dsp.user_info_lines =
                  get_user_info_lines(ColorInit, user_data, starred_count, dsp.repos_shown,
                                      terminal_width - 10).lines
            /\ Len(printed) = n + 2
            /\ printed[1].text = <<>> /\ printed[n + 2].text = <<>>
            /\ \A i \in 1..n :
                  /\ SubSeq(printed[i + 1].text, 1, 2) = <<" ", " ">>
                  /\ SubSeq(printed[i + 1].text, 3, Len(printed[i + 1].text))
                        = dsp.display_lines[i]
            /\ EventsOf("up") \cup EventsOf("right") \cup EventsOf("down") = {}
            /\ \A i \in 1..Len(stdout) :
                  stdout[i].op = "print" => \A j \in 1..i : stdout[j].op \in {"print", "image"}

\* without the paint capability, the profile and a grid heatmap were printed
C16_Witness ==
    /\ TextOnlyDone /\ imgcat_path = "False"
    /\ dsp.show_heatmap /\ hm.exit = "grid"
    /\ dsp.text_width = terminal_width - 10
    /\ Len(PrintedLines) = Len(dsp.display_lines) + 2

(***************************************************************************)
(* The heatmap requested from main (checked under SpecMain).               *)
(***************************************************************************)
\* a line with this text has been printed on the terminal
PrintedText(text) ==
    \E i \in 1..Len(stdout) : stdout[i].op = "print" /\ text \in Range(stdout[i].text)

\* C17: when main runs with --heatmap and the fetch yields no calendar, the
\* rendered output has the renderer's data-absent error text, and not the
\* no-contributions text of a present, empty calendar; the absent case is
\* never rendered as a plain profile without a heatmap message.
C17_AbsentCalendarReported ==
    (heatmap_requested /\ pc = "done" /\ contributions_data.isNone) =>
        /\ PrintedText("No contribution data available.")
        /\ ~PrintedText("No contributions found for user '")

(***************************************************************************)
(* Image and text-only rendering in one execution (checked under Spec).    *)
(***************************************************************************)
\* C18: the text-only block is printed only if no image was painted in the
\* execution: once the paint has succeeded no later step raises into the
\* text-only branch, so the output never holds both a painted image and the
\* text-only block.
C18_TextOnlyOnlyWithoutImage ==
    EventsOf("image") # {} =>
        /\ pc # "fallback"
        /\ dsp.branch # "text"
        /\ ~(pc = "done" /\ Len(PrintedLines) = Len(dsp.display_lines) + 2
                /\ PrintedLines = TextBlock(dsp.display_lines))

(***************************************************************************)
(* Thresholds and levels of the grid (checked under SpecHeatmap).          *)
(***************************************************************************)
\* the level whose block a dated day is drawn with
LevelShown(p) ==
    CHOOSE l \in 0..4 :
        hm.contribution_blocks[l + 1] = hm.horizontal_data[RowOf(DayAt(p))][p[1]]

DatedDays == {p \in DayPositions : DayAt(p).date.valid}

\* C19: for every calendar rendered as a grid, 1 <= q1 <= q2 <= q3, the level
\* drawn never decreases when the day count increases, and a day whose count
\* is the calendar's maximum is drawn at level 4 when the maximum is at
\* least 4, and at level maxCount when the maximum is 1, 2 or 3.
C19_ThresholdsOrderedLevelsMonotone ==
    (Returned /\ hm.exit = "grid") =>
        /\ 1 <= hm.q1 /\ hm.q1 <= hm.q2 /\ hm.q2 <= hm.q3
        /\ hm.max_contributions = MaxCountOfCalendar
        /\ \A p \in DatedDays :
              \E l \in 0..4 :
                 hm.contribution_blocks[l + 1] = hm.horizontal_data[RowOf(DayAt(p))][p[1]]
        /\ \A p, q \in DatedDays :
              DayAt(p).contributionCount <= DayAt(q).contributionCount
                  => LevelShown(p) <= LevelShown(q)
        /\ \A p \in DatedDays :
              DayAt(p).contributionCount = MaxCountOfCalendar =>
                 /\ MaxCountOfCalendar >= 4 => LevelShown(p) = 4
                 /\ MaxCountOfCalendar \in 1..3 => LevelShown(p) = MaxCountOfCalendar

\* a grid whose maximum of at least 4 is drawn at level 4 beside a day with a
\* smaller positive count drawn at a lower level
C19_Witness ==
    /\ Returned /\ hm.exit = "grid" /\ MaxCountOfCalendar >= 4
    /\ \E p, q \in DatedDays :
          /\ DayAt(p).contributionCount = MaxCountOfCalendar /\ LevelShown(p) = 4
          /\ DayAt(q).contributionCount \in 1..(MaxCountOfCalendar - 1)
          /\ LevelShown(q) < 4

(***************************************************************************)
(* The field lines of get_user_info_lines (checked under SpecInfo).        *)
(***************************************************************************)
\* the returned lines that begin with a label (labels are yellow)
LabelledLines ==
    SelectSeq(info_result.lines, LAMBDA l : l # <<>> /\ l[1] = ColorInit.yellow)

FieldLabels ==
    << <<"W", "e", "b", "s", "i", "t", "e">>, <<"R", "e", "p", "o", "s">>, <<"B", "i", "o">>,
       <<"F", "r", "o", "m">>, <<"F", "o", "l", "l", "o", "w", "e", "r", "s">>,
       <<"F", "o", "l", "l", "o", "w", "i", "n", "g">>, <<"S", "t", "a", "r", "r", "e", "d">> >>

\* the line shows this value last, before the closing reset code
EndsWithValue(l, value) ==
    /\ Len(l) > Len(value)
    /\ SubSeq(l, Len(l) - Len(value), Len(l) - 1) = value

\* C20: for every profile record with a login, also when blog, bio or
\* location is missing, empty or whitespace-only, get_user_info_lines returns
\* normally (at a text width that leaves room to wrap), and after the title
\* and the separator there is exactly one labelled line per field, in the
\* order Website, Repos, Bio, From, Followers, Following, Starred, a missing
\* Website or Bio shown as N/A and a missing location as Not Provided.
C20_ReturnsOneLinePerField ==
    (pc \in {"info_returned", "info_raised"} /\ info_width >= 4) =>
        /\ pc = "info_returned"
        /\ Len(LabelledLines) = 7
        /\ \A i \in 1..7 :
              SubSeq(LabelledLines[i], 2, Len(FieldLabels[i]) + 2) = FieldLabels[i] \o <<":">>
        /\ user_data.blog = <<>> => EndsWithValue(LabelledLines[1], NA)
        /\ user_data.bio = <<>> => EndsWithValue(LabelledLines[3], NA)
        /\ user_data.location = <<>> => EndsWithValue(LabelledLines[4], NotProvided)

(***************************************************************************)
(* Properties of the token setup                                           *)
(***************************************************************************)
\* C21: whatever the sequence of attempts of setup_github_token (entry,
\* format override, validation, retry or decline), a token for which
\* validate_github_token returned False is never in the token file, is not in
\* GITHUB_TOKEN once the setup has returned None, and is never the token of
\* the Authorization header that get_headers builds.
C21_OnlyValidatedTokensKept ==
    /\ tok.file \notin tok.failed
    /\ (tok.returned /\ tok.result = NoToken) => tok.env \notin tok.failed
    /\ tok.sent \notin tok.failed

=============================================================================
